---- MODULE Spec2Model ----
(***************************************************************************)
(* Model of the image-PPT to editable-PPT reconstruction pipeline:         *)
(*   services/ppt_converter/llm_filter.py   (Noise Filter)                  *)
(*   services/ppt_converter/converter.py    (Pipeline Orchestrator)         *)
(*   services/ppt_converter/ocr_engine.py   (Text Detector front end)       *)
(*   services/ppt_converter/ppt_generator.py (Emitter)                      *)
(*   services/pdf_converter/converter.py    (PDF entry point)               *)
(*   controllers/pdf_convert_controller.py  (background task)               *)
(*   services/ppt_converter/baidu_ocr.py    (Text Detector)                 *)
(*   services/ppt_converter/text_corrector.py (Reference Corrector)         *)
(*   services/ppt_converter/utils/image_utils.py (Background Cleaner)       *)
(*   services/ppt_converter/utils/font_utils.py  (font size of the Style    *)
(*                                                Mapper)                   *)
(*   services/order_service.py, controllers/order_controller.py,           *)
(*   controllers/payment_callback_controller.py (payment completion)       *)
(*                                                                         *)
(* A text is a sequence of one-character strings.  A TextBlock is a record  *)
(* [id, text]; id is the position the detector gave the fragment, so that   *)
(* "unchanged and in input order" can be observed.                          *)
(***************************************************************************)
EXTENDS Integers, Sequences, FiniteSets, TLC

VARIABLES
    \* ---- Noise Filter called as a function (SpecFilter) ----
    fPc,        \* "idle" | "ready" | "done"
    fIn,        \* the text_blocks argument
    fLlm,       \* what the reasoning capability does on this call
    fOut        \* the value filter_text_blocks returned

VARIABLES
    \* ---- one run of PPTConverter.convert_images ----
    pc,                 \* position in the run
    image_paths,        \* the deck: what each path holds ("ok", "missing", "corrupt")
    cfg,                \* [creds, llm, callback, remove_text]
    idx,                \* the loop variable of convert_images (1-based page)
    slide_data,         \* what _process_single_image returned for page idx
    generator,          \* the slides PPTGenerator holds in memory
    slides_count,       \* len(slides_data)
    total_text_blocks,
    log,                \* progress events delivered and Emitter calls, in order
    result,             \* the ConversionResult returned
    exc,                \* the exception that left convert_images, or "none"
    pageLog,            \* per page: what the environment did (history)
    loaded,             \* number of load_image calls
    ocrCalls            \* number of detection requests sent

VARIABLES
    \* ---- one run of the background task _pdf_to_pptx_task ----
    tpc,                \* position in the task function
    task,               \* the Task record
    pdf,                \* the uploaded PDF and the environment of this run
    presult,            \* the PDFConversionResult PDFConverter.convert returned
    vpage,              \* page loop variable of the PDF converter (1-based)
    statusLog           \* every value Task.status has held, in order (history)

VARIABLES
    \* ---- one call of BaiduOCRClient.recognize (SpecOcr) ----
    oPc,        \* "idle" | "ready" | "done" | "raised"
    oImage,     \* [width, height] of the image file
    oResp,      \* the JSON body the OCR service answered
    oThreshold, \* confidence_threshold, in hundredths
    oTruth,     \* where the text really is on the unscaled image (history)
    oOut        \* the list recognize returned

VARIABLES
    \* ---- one TextCorrector and one correct_text_block call (SpecCorrector) ----
    cPc,        \* "idle" | "ready" | "done"
    cRef,       \* reference_text, as the list of its lines
    cThreshold, \* similarity_threshold, in hundredths
    cBlock,     \* the text_block argument: [text]
    cPage,      \* page_num (0 is None)
    cMatch,     \* what _find_best_match returned
    cOut        \* the text_block after the call

VARIABLES
    \* ---- one call of remove_text_regions (SpecClean) ----
    rPc,        \* "idle" | "ready" | "done"
    rBoxes,     \* the bboxes argument, each with what background detection finds
    rImage,     \* the pixels of the image argument (the caller's bitmap)
    rOut        \* the pixels of the returned bitmap

VARIABLES
    \* ---- calls of estimate_font_size_pt on one image (SpecFont) ----
    ePc,        \* "idle" | "ready"
    eImageH,    \* image_height
    eCalls      \* the calls made so far: [bbox_height, font_size]

VARIABLES
    \* ---- one call of BaiduOCRClient._prepare_image (SpecPrepare) ----
    qPc,        \* "idle" | "ready" | "loop" | "done"
    qImage,     \* the image file: [width, height, jpeg]; jpeg[q] is the number
                \* of bytes img.save(format='JPEG', quality=q) writes
    qSize,      \* img.size after the resize
    qQuality,   \* the local quality
    qBytes,     \* len(image_bytes)
    qOut        \* what _prepare_image returned: [base64_len, scale]

VARIABLES
    \* ---- threads calling recognize on one BaiduOCRClient (SpecToken) ----
    kPc,        \* per thread: "idle" | "check" | "fetch" | "assign" | "read" | "post" | "raised"
    kToken,     \* self._access_token: 0 is None, n the n-th token the service issued
    kLocal,     \* per thread: the token value it holds on its stack (0: none)
    kIssued,    \* token service: the expiry time of each token it issued
    kNow,       \* the clock
    kRequests,  \* the OCR requests sent: [token, at] (history)
    kCalls,     \* recognize calls started (history)
    kFailed     \* token fetches that raised (history)

VARIABLES
    \* ---- one call of PPTGenerator._add_text_box (SpecEmit) ----
    gPc,        \* "idle" | "ready" | "done"
    gSlide,     \* slide_data: [width], the width of the image in pixels
    gBlock,     \* text_block: [text, x, w, font_size]
    gOut        \* the text box placed: [left, width, font_size]

VARIABLES
    \* ---- requests that complete the payment of one order (SpecOrder) ----
    dPc,          \* per request: "idle" | "loaded" | "checked" | "complete" | "done"
    dLocal,       \* per request: order.status as its session holds it
    dStatus,      \* the status column of the order row
    dHasTxn,      \* the row has a transaction_id (set when the payment was created)
    dCbbPaid,     \* the payment provider has the order as paid
    dPastExpiry,  \* utcnow() > order.expires_at
    dActivations, \* successful activate_membership calls for the order (history)
    dStatusLog,   \* every value the status column has held, in order (history)
    dReturns      \* what each complete_payment call returned and changed (history)

fvars == <<fPc, fIn, fLlm, fOut>>

evars == <<ePc, eImageH, eCalls>>

FontIdle == ePc = "idle" /\ eImageH = 0 /\ eCalls = <<>>

rvars == <<rPc, rBoxes, rImage, rOut>>

CleanIdle == rPc = "idle" /\ rBoxes = <<>> /\ rImage = <<>> /\ rOut = <<>>

cvars == <<cPc, cRef, cThreshold, cBlock, cPage, cMatch, cOut>>

NoMatch == [found |-> FALSE, text |-> <<>>, score |-> [num |-> 0, den |-> 1], via |-> "none"]

CorrectorIdle ==
    /\ cPc = "idle" /\ cRef = <<>> /\ cThreshold = 0
    /\ cBlock = [text |-> <<>>] /\ cPage = 0 /\ cMatch = NoMatch
    /\ cOut = [text |-> <<>>]

ovars == <<oPc, oImage, oResp, oThreshold, oTruth, oOut>>

NoBox == [left |-> 0, top |-> 0, width |-> 0, height |-> 0]

OcrIdle ==
    /\ oPc = "idle" /\ oImage = [width |-> 0, height |-> 0]
    /\ oResp = [error |-> FALSE, words_result |-> <<>>]
    /\ oThreshold = 0 /\ oTruth = NoBox /\ oOut = <<>>

qvars == <<qPc, qImage, qSize, qQuality, qBytes, qOut>>

NoPayload == [base64_len |-> 0, scale |-> [num |-> 1, den |-> 1]]

PrepareIdle ==
    /\ qPc = "idle" /\ qImage = [width |-> 0, height |-> 0, jpeg |-> <<>>]
    /\ qSize = [width |-> 0, height |-> 0] /\ qQuality = 0 /\ qBytes = 0
    /\ qOut = NoPayload

kvars == <<kPc, kToken, kLocal, kIssued, kNow, kRequests, kCalls, kFailed>>

TokenIdle ==
    /\ kPc = <<>> /\ kToken = 0 /\ kLocal = <<>> /\ kIssued = <<>> /\ kNow = 0
    /\ kRequests = <<>> /\ kCalls = 0 /\ kFailed = 0

gvars == <<gPc, gSlide, gBlock, gOut>>

NoTextBox == [left |-> 0, width |-> 0, font_size |-> 0]

EmitIdle ==
    /\ gPc = "idle" /\ gSlide = [width |-> 0]
    /\ gBlock = [text |-> <<>>, x |-> 0, w |-> 0, font_size |-> 0]
    /\ gOut = NoTextBox

dvars == <<dPc, dLocal, dStatus, dHasTxn, dCbbPaid, dPastExpiry, dActivations,
           dStatusLog, dReturns>>

OrderIdle ==
    /\ dPc = <<>> /\ dLocal = <<>> /\ dStatus = "none" /\ dHasTxn = FALSE
    /\ dCbbPaid = FALSE /\ dPastExpiry = FALSE /\ dActivations = 0
    /\ dStatusLog = <<>> /\ dReturns = <<>>

\* the parts added for the OCR client's request, the Emitter and the orders
yvars == <<qvars, kvars, gvars, dvars>>

YIdle == PrepareIdle /\ TokenIdle /\ EmitIdle /\ OrderIdle

\* the parts that only the function-level specifications move
xvars == <<ovars, cvars, rvars, evars, yvars>>

XIdle == OcrIdle /\ CorrectorIdle /\ CleanIdle /\ FontIdle /\ YIdle

xvarsButPrepare == <<ovars, cvars, rvars, evars, kvars, gvars, dvars>>

xvarsButToken == <<ovars, cvars, rvars, evars, qvars, gvars, dvars>>

xvarsButEmit == <<ovars, cvars, rvars, evars, qvars, kvars, dvars>>

xvarsButOrder == <<ovars, cvars, rvars, evars, qvars, kvars, gvars>>

pvars == <<pc, image_paths, cfg, idx, slide_data, generator, slides_count,
           total_text_blocks, log, result, exc, pageLog, loaded, ocrCalls>>

tvars == <<tpc, task, pdf, presult, vpage, statusLog>>

vars == <<fvars, pvars, tvars, xvars>>

(***************************************************************************)
(* Bounds                                                                  *)
(***************************************************************************)
MaxBlocks == 3
MaxReplyLen == 3
MaxPages == 3
MaxFrags == 2
MaxItems == 2
MaxCoord == 5
MaxRefLines == 3
MaxBoxes == 2
ImgW == 20
ImgH == 6
MaxBboxH == 30
MaxCalls == 2
MaxRecognize == 3
MaxTime == 3
TokenLifetime == 2

(***************************************************************************)
(* Python str helpers, on texts as sequences of characters                 *)
(***************************************************************************)
IsSpace(c) == c = " "

RECURSIVE lstrip(_)
lstrip(s) ==
    IF s = <<>> THEN s
    ELSE IF IsSpace(Head(s)) THEN lstrip(Tail(s)) ELSE s

RECURSIVE rstrip(_)
rstrip(s) ==
    IF s = <<>> THEN s
    ELSE IF IsSpace(s[Len(s)]) THEN rstrip(SubSeq(s, 1, Len(s) - 1)) ELSE s

strip(s) == rstrip(lstrip(s))

LowerChar(c) ==
    CASE c = "A" -> "a"
      [] c = "L" -> "l"
      [] c = "N" -> "n"
      [] c = "O" -> "o"
      [] c = "E" -> "e"
      [] c = "X" -> "x"
      [] OTHER -> c

lower(s) == [i \in 1..Len(s) |-> LowerChar(s[i])]

\* s.split(","): always at least one part; "" splits to [""].
RECURSIVE split(_, _)
split(s, acc) ==
    IF s = <<>> THEN <<acc>>
    ELSE IF Head(s) = "," THEN <<acc>> \o split(Tail(s), <<>>)
    ELSE split(Tail(s), Append(acc, Head(s)))

AsciiDigits == {"0", "1", "2", "3", "4", "5", "6", "7", "8", "9"}

\* str.isdigit() is also true of digit-like characters such as a superscript
\* two ("sup2"), which int() then refuses with ValueError.
DigitLike == AsciiDigits \cup {"sup2"}

isdigit(s) == s # <<>> /\ \A i \in 1..Len(s) : s[i] \in DigitLike

IntRaises(s) == \E i \in 1..Len(s) : s[i] \notin AsciiDigits

DigitValue(c) ==
    CASE c = "0" -> 0 [] c = "1" -> 1 [] c = "2" -> 2 [] c = "3" -> 3
      [] c = "4" -> 4 [] c = "5" -> 5 [] c = "6" -> 6 [] c = "7" -> 7
      [] c = "8" -> 8 [] c = "9" -> 9 [] OTHER -> 0

RECURSIVE int(_)
int(s) ==
    IF s = <<>> THEN 0
    ELSE 10 * int(SubSeq(s, 1, Len(s) - 1)) + DigitValue(s[Len(s)])

LitAll == <<"a", "l", "l">>
LitNone == <<"n", "o", "n", "e">>

range(n) == 0..(n - 1)

(***************************************************************************)
(* LLMFilter                                                               *)
(***************************************************************************)
\* The listed numbers read as 1-based positions.
parse_llm_response_one_based(response0, total_count) ==
    LET response == strip(response0)
        parts == split(response, <<>>)
        digitParts == {i \in 1..Len(parts) : isdigit(strip(parts[i]))}
        indices == {int(strip(parts[i])) - 1 : i \in digitParts} \cap range(total_count)
    IN  IF response = LitAll THEN [raised |-> FALSE, indices |-> range(total_count)]
        ELSE IF response = LitNone THEN [raised |-> FALSE, indices |-> {}]
        ELSE IF \E i \in digitParts : IntRaises(strip(parts[i]))
             THEN [raised |-> TRUE, indices |-> {}]
        ELSE IF indices = {} /\ response \notin {LitNone, <<>>}
             THEN [raised |-> FALSE, indices |-> range(total_count)]
        ELSE [raised |-> FALSE, indices |-> indices]

\* _parse_llm_response: [raised, indices]; raised models the ValueError of
\* int() escaping the function.
parse_llm_response(response0, total_count) ==
    LET response == strip(response0)
        parts == split(response, <<>>)
        digitParts == {i \in 1..Len(parts) : isdigit(strip(parts[i]))}
        indices == {int(strip(parts[i])) : i \in digitParts} \cap range(total_count)
    IN  IF response = LitAll THEN [raised |-> FALSE, indices |-> range(total_count)]
        ELSE IF response = LitNone THEN [raised |-> FALSE, indices |-> {}]
        ELSE IF \E i \in digitParts : IntRaises(strip(parts[i]))
             THEN [raised |-> TRUE, indices |-> {}]
        ELSE IF indices = {} /\ response \notin {LitNone, <<>>}
             THEN [raised |-> FALSE, indices |-> range(total_count)]
        ELSE [raised |-> FALSE, indices |-> indices]

\* The except branch keeping nothing instead of everything.
call_llm_except_keeps_none(ocr_texts, llm) ==
    IF llm.kind = "reply"
    THEN LET r == parse_llm_response(lower(strip(llm.content)), Len(ocr_texts))
         IN  IF r.raised THEN {} ELSE r.indices
    ELSE {}

\* _call_llm: llm.kind is "raise" (the API call raises), "null" (the reply
\* carries no content, so .strip() raises) or "reply" (content is a text).
\* Every exception inside the try block keeps all texts.
call_llm(ocr_texts, llm) ==
    IF llm.kind = "reply"
    THEN LET r == parse_llm_response(lower(strip(llm.content)), Len(ocr_texts))
         IN  IF r.raised THEN range(Len(ocr_texts)) ELSE r.indices
    ELSE range(Len(ocr_texts))

NonBlank(tb) == strip(tb.text) # <<>>

\* ocr_texts = [tb.text.strip() for tb in text_blocks if tb.text.strip()]
RECURSIVE build_ocr_texts(_)
build_ocr_texts(text_blocks) ==
    IF text_blocks = <<>> THEN <<>>
    ELSE (IF NonBlank(Head(text_blocks)) THEN <<strip(Head(text_blocks).text)>> ELSE <<>>)
         \o build_ocr_texts(Tail(text_blocks))

\* the loop "for i, tb in enumerate(text_blocks)" from position i (1-based
\* here, so the Python index is i - 1)
RECURSIVE filter_loop(_, _, _)
filter_loop(text_blocks, keep_indices, i) ==
    IF i > Len(text_blocks) THEN [filtered |-> <<>>, filtered_count |-> 0]
    ELSE LET rest == filter_loop(text_blocks, keep_indices, i + 1)
             tb == text_blocks[i]
         IN  IF ~NonBlank(tb) THEN rest
             ELSE IF (i - 1) \in keep_indices
                  THEN [rest EXCEPT !.filtered = <<tb>> \o @]
                  ELSE [rest EXCEPT !.filtered_count = @ + 1]

\* filter_text_blocks: [blocks, filtered_count, called, keep_indices];
\* called says whether the reasoning capability was invoked.
filter_text_blocks(text_blocks, llm) ==
    LET ocr_texts == build_ocr_texts(text_blocks)
    IN  IF text_blocks = <<>> \/ ocr_texts = <<>>
        THEN [blocks |-> <<>>, filtered_count |-> 0, called |-> FALSE, keep_indices |-> {}]
        ELSE LET keep_indices == call_llm(ocr_texts, llm)
                 r == filter_loop(text_blocks, keep_indices, 1)
             IN  [blocks |-> r.filtered, filtered_count |-> r.filtered_count,
                  called |-> TRUE, keep_indices |-> keep_indices]

(***************************************************************************)
(* SpecFilter: filter_text_blocks on bounded inputs                        *)
(***************************************************************************)
RECURSIVE SeqsUpTo(_, _)
SeqsUpTo(S, n) ==
    IF n = 0 THEN {<<>>}
    ELSE LET shorter == SeqsUpTo(S, n - 1)
         IN  shorter \cup {Append(s, x) : s \in {t \in shorter : Len(t) = n - 1}, x \in S}

FilterTexts == {<<"a", "b">>, <<"7">>, <<" ">>, <<>>}

FilterInputs ==
    {[i \in 1..Len(ts) |-> [id |-> i, text |-> ts[i]]] : ts \in SeqsUpTo(FilterTexts, MaxBlocks)}

ReplyChars == {"0", "1", "2", ",", " ", "x", "sup2"}

Replies ==
    SeqsUpTo(ReplyChars, MaxReplyLen)
        \cup {LitAll, LitNone, <<"A", "L", "L">>, <<" ", "a", "l", "l">>, <<"N", "o", "n", "e">>}

LlmOutcomes ==
    {[kind |-> "raise", content |-> <<>>], [kind |-> "null", content |-> <<>>]}
        \cup {[kind |-> "reply", content |-> c] : c \in Replies}

NoOut == [blocks |-> <<>>, filtered_count |-> 0, called |-> FALSE, keep_indices |-> {}]

FilterIdle ==
    /\ fPc = "idle" /\ fIn = <<>> /\ fOut = NoOut
    /\ fLlm = [kind |-> "raise", content |-> <<>>]

(***************************************************************************)
(* PPTConverter.convert_images                                             *)
(***************************************************************************)
ImageKinds == {"ok", "missing", "corrupt"}

NoSlide == [present |-> FALSE, index |-> 0, bg |-> "none", bg_exists |-> FALSE,
            text_blocks |-> <<>>]

NoResult == [present |-> FALSE, success |-> FALSE, has_output_path |-> FALSE,
             slides_count |-> 0, text_blocks_count |-> 0, has_error_message |-> FALSE]

NoCfg == [creds |-> FALSE, llm |-> FALSE, callback |-> FALSE, remove_text |-> FALSE]

PipelineIdle ==
    /\ pc = "idle" /\ image_paths = <<>> /\ cfg = NoCfg /\ idx = 0
    /\ slide_data = NoSlide /\ generator = <<>> /\ slides_count = 0
    /\ total_text_blocks = 0 /\ log = <<>> /\ result = NoResult /\ exc = "none"
    /\ pageLog = <<>> /\ loaded = 0 /\ ocrCalls = 0

NoTask == [found |-> FALSE, status |-> "none", progress |-> "none",
           has_error_message |-> FALSE]

NoPdf == [exists |-> FALSE, detect |-> "raise", page_count |-> 0, creds |-> FALSE,
          task_found |-> FALSE, reference |-> FALSE]

NoPdfResult == [present |-> FALSE, success |-> FALSE, has_output_path |-> FALSE,
                has_error_message |-> FALSE, pages_count |-> 0]

TaskIdle ==
    /\ tpc = "idle" /\ task = NoTask /\ pdf = NoPdf /\ presult = NoPdfResult
    /\ vpage = 0 /\ statusLog = <<>>

\* A progress dict: keys says which of current_page / total / completed /
\* text_blocks_count the dict carries (stage and stage_name are always there).
Event(stage, page, total, keys, count) ==
    [op |-> "event", stage |-> stage, current_page |-> page, total |-> total,
     keys |-> keys, text_blocks_count |-> count]

\* A call of the Emitter (op is "add_slide" or "save"); stage holds how the
\* call ended ("ok", "failed").
EmitterCall(name, page, outcome) ==
    [op |-> name, stage |-> outcome, current_page |-> page, total |-> 0,
     keys |-> {}, text_blocks_count |-> 0]

\* "if progress_callback: progress_callback({...})"
Callback(l, ev) == IF cfg.callback THEN Append(l, ev) ELSE l

\* BaiduOCRClient.recognize on a readable image, when the request succeeds:
\* k fragments that passed the post-filter, in detection order.
DetectorOutput(k) == [i \in 1..k |-> [id |-> i, text |-> <<"a", "b">>]]

\* What the reasoning capability may do during a pipeline run.
PipeLlmOutcomes ==
    {[kind |-> "raise", content |-> <<>>],
     [kind |-> "reply", content |-> <<"0">>],
     [kind |-> "reply", content |-> LitNone]}

\* History of one page: the file (image), what detection did (ocr) and how
\* many fragments it returned (detected), what the reasoning capability did
\* (llm, "na" when it was not called), the filter's outputs (kept,
\* filtered_count), whether the background file of the slide exists, the
\* stages of _process_single_image in the order they ran (stages) and the
\* ids of the fragments the Style Mapper was applied to (styled).
PageRecord(image, ocr, detected, llm, filtered_count, kept, bg_written, stages, styled) ==
    [image |-> image, ocr |-> ocr, detected |-> detected, llm |-> llm,
     filtered_count |-> filtered_count, kept |-> kept, bg_written |-> bg_written,
     stages |-> stages, styled |-> styled]

\* convert_images entered: lines 53-56
CallConvertImages ==
    /\ pc = "idle"
    /\ tpc = "idle"
    /\ \E imgs \in SeqsUpTo(ImageKinds, MaxPages), c \in [creds : BOOLEAN, llm : BOOLEAN,
                                   callback : BOOLEAN, remove_text : BOOLEAN] :
          /\ image_paths' = imgs
          /\ cfg' = c
    /\ pc' = "loop"
    /\ idx' = 1
    /\ generator' = <<>>
    /\ slides_count' = 0
    /\ total_text_blocks' = 0
    /\ UNCHANGED <<slide_data, log, result, exc, pageLog, loaded, ocrCalls>>

\* top of the for loop: the 'ocr' progress event of page idx
LoopHead ==
    /\ pc = "loop"
    /\ idx <= Len(image_paths)
    /\ log' = Callback(log, Event("ocr", idx, Len(image_paths), {"current_page", "total"}, 0))
    /\ pc' = "process"
    /\ UNCHANGED <<image_paths, cfg, idx, slide_data, generator, slides_count,
                   total_text_blocks, result, exc, pageLog, loaded, ocrCalls>>

\* _process_single_image: the path does not exist, return None
ProcessMissing ==
    /\ pc = "process"
    /\ image_paths[idx] = "missing"
    /\ slide_data' = NoSlide
    /\ pageLog' = Append(pageLog, PageRecord("missing", "na", 0, "na", 0, <<>>, FALSE,
                                             <<>>, {}))
    /\ pc' = "page_end"
    /\ UNCHANGED <<image_paths, cfg, idx, generator, slides_count, total_text_blocks,
                   log, result, exc, loaded, ocrCalls>>

\* load_image on a file that is no image: Image.open raises, and nothing
\* between it and the caller of convert_images catches
ProcessLoadRaises ==
    /\ pc = "process"
    /\ image_paths[idx] = "corrupt"
    /\ loaded' = loaded + 1
    /\ pageLog' = Append(pageLog, PageRecord("corrupt", "na", 0, "na", 0, <<>>, FALSE,
                                             <<>>, {}))
    /\ exc' = "image"
    /\ pc' = "raised"
    /\ UNCHANGED <<image_paths, cfg, idx, slide_data, generator, slides_count,
                   total_text_blocks, log, result, ocrCalls>>

\* OCREngine.baidu_client without credentials: ValueError at the first
\* recognize, after the image was loaded
ProcessCredsMissing ==
    /\ pc = "process"
    /\ image_paths[idx] = "ok"
    /\ ~cfg.creds
    /\ loaded' = loaded + 1
    /\ pageLog' = Append(pageLog, PageRecord("ok", "config", 0, "na", 0, <<>>, FALSE,
                                             <<"detector">>, {}))
    /\ exc' = "config"
    /\ pc' = "raised"
    /\ UNCHANGED <<image_paths, cfg, idx, slide_data, generator, slides_count,
                   total_text_blocks, log, result, ocrCalls>>

\* recognize raises (network, quota, timeout, error_code in the reply)
ProcessOcrRaises ==
    /\ pc = "process"
    /\ image_paths[idx] = "ok"
    /\ cfg.creds
    /\ loaded' = loaded + 1
    /\ ocrCalls' = ocrCalls + 1
    /\ pageLog' = Append(pageLog, PageRecord("ok", "raise", 0, "na", 0, <<>>, FALSE,
                                             <<"detector">>, {}))
    /\ exc' = "ocr"
    /\ pc' = "raised"
    /\ UNCHANGED <<image_paths, cfg, idx, slide_data, generator, slides_count,
                   total_text_blocks, log, result>>

\* the rest of _process_single_image for detector output `detected`, the
\* reasoning capability behaving as llm, and cv2.imwrite succeeding or not
process_single_image(detected, llm, imwrite_ok) ==
    LET use_llm == cfg.llm /\ detected # <<>>
        f == IF use_llm THEN filter_text_blocks(detected, llm)
             ELSE [blocks |-> detected, filtered_count |-> 0, called |-> FALSE,
                   keep_indices |-> {}]
        clean == cfg.remove_text /\ f.blocks # <<>>
    IN  [slide |-> [present |-> TRUE, index |-> idx,
                    bg |-> IF clean THEN "processed" ELSE "original",
                    bg_exists |-> IF clean THEN imwrite_ok ELSE TRUE,
                    text_blocks |-> f.blocks],
         use_llm |-> use_llm,
         filtered_count |-> f.filtered_count,
         \* lines 126-133: recognize, then enrich_text_blocks on all it returned;
         \* lines 136-149: the filter; lines 157-162: remove_text_regions
         stages |-> <<"detector", "style_mapper">>
                    \o (IF use_llm THEN <<"noise_filter">> ELSE <<>>)
                    \o (IF clean THEN <<"background_cleaner">> ELSE <<>>),
         styled |-> {detected[i].id : i \in 1..Len(detected)}]

ProcessOk ==
    /\ pc = "process"
    /\ image_paths[idx] = "ok"
    /\ cfg.creds
    /\ \E k \in 0..MaxFrags, llm \in PipeLlmOutcomes, imwrite_ok \in BOOLEAN :
          LET detected == DetectorOutput(k)
              r == process_single_image(detected, llm, imwrite_ok)
          IN  \* the choices that are not consulted are fixed, so that they do
              \* not multiply the states
              /\ (~r.use_llm => llm.kind = "raise")
              /\ (r.slide.bg = "original" => imwrite_ok)
              /\ slide_data' = r.slide
              /\ log' = IF r.use_llm
                        THEN Callback(log, Event("llm_filter", idx, 0, {"current_page"}, 0))
                        ELSE log
              /\ pageLog' = Append(pageLog,
                     PageRecord("ok", "ok", k,
                                IF r.use_llm THEN llm.kind ELSE "na", r.filtered_count,
                                r.slide.text_blocks, r.slide.bg_exists,
                                r.stages, r.styled))
    /\ loaded' = loaded + 1
    /\ ocrCalls' = ocrCalls + 1
    /\ pc' = "page_end"
    /\ UNCHANGED <<image_paths, cfg, idx, generator, slides_count, total_text_blocks,
                   result, exc>>

\* add_slide whose loop misses the first text block.
add_slide_skips_first(gen, sd) ==
    Append(gen, [index |-> sd.index, has_background |-> sd.bg_exists, bg |-> sd.bg,
                 n_text_boxes |-> IF sd.text_blocks = <<>> THEN 0
                                  ELSE Len(sd.text_blocks) - 1])

\* PPTGenerator.add_slide: one background picture if the file exists, one
\* text box per text block
add_slide(gen, sd) ==
    Append(gen, [index |-> sd.index, has_background |-> sd.bg_exists,
                 bg |-> sd.bg, n_text_boxes |-> Len(sd.text_blocks)])

\* A page_done event that numbers pages from 0 (enumerate without start=1).
PageDoneEvent_zero_based(page, total, count) ==
    Event("page_done", page - 1, total,
          {"current_page", "total", "completed", "text_blocks_count"}, count)

\* A page_done event whose text_blocks_count is left at 0.
PageDoneEvent_without_count(page, total, count) ==
    Event("page_done", page, total,
          {"current_page", "total", "completed", "text_blocks_count"}, 0)

\* lines 78-86: the 'page_done' progress dict
PageDoneEvent(page, total, count) ==
    Event("page_done", page, total,
          {"current_page", "total", "completed", "text_blocks_count"}, count)

\* lines 72-86: accumulate the slide, then the 'page_done' event
LoopTail ==
    /\ pc = "page_end"
    /\ generator' = IF slide_data.present THEN add_slide(generator, slide_data) ELSE generator
    /\ slides_count' = IF slide_data.present THEN slides_count + 1 ELSE slides_count
    /\ total_text_blocks' = IF slide_data.present
                            THEN total_text_blocks + Len(slide_data.text_blocks)
                            ELSE total_text_blocks
    /\ log' = Callback(
                 IF slide_data.present THEN Append(log, EmitterCall("add_slide", idx, "ok")) ELSE log,
                 PageDoneEvent(idx, Len(image_paths),
                               IF slide_data.present THEN Len(slide_data.text_blocks) ELSE 0))
    /\ idx' = idx + 1
    /\ pc' = "loop"
    /\ UNCHANGED <<image_paths, cfg, slide_data, result, exc, pageLog, loaded, ocrCalls>>

\* lines 88-96: the loop is over, the 'generating' event
Generating ==
    /\ pc = "loop"
    /\ idx > Len(image_paths)
    /\ log' = Callback(log, Event("generating", Len(image_paths), Len(image_paths),
                                  {"current_page", "total", "completed"}, 0))
    /\ pc' = "save"
    /\ UNCHANGED <<image_paths, cfg, idx, slide_data, generator, slides_count,
                   total_text_blocks, result, exc, pageLog, loaded, ocrCalls>>

\* lines 98-105: generator.save wrote the file
SaveOk ==
    /\ pc = "save"
    /\ log' = Append(log, EmitterCall("save", 0, "ok"))
    /\ result' = [present |-> TRUE, success |-> TRUE, has_output_path |-> TRUE,
                  slides_count |-> slides_count, text_blocks_count |-> total_text_blocks,
                  has_error_message |-> FALSE]
    /\ pc' = "returned"
    /\ UNCHANGED <<image_paths, cfg, idx, slide_data, generator, slides_count,
                   total_text_blocks, exc, pageLog, loaded, ocrCalls>>

\* generator.save raises (mkdir or prs.save fails): nothing in convert_images
\* catches it
SaveRaises ==
    /\ pc = "save"
    /\ log' = Append(log, EmitterCall("save", 0, "failed"))
    /\ exc' = "save"
    /\ pc' = "raised"
    /\ UNCHANGED <<image_paths, cfg, idx, slide_data, generator, slides_count,
                   total_text_blocks, result, pageLog, loaded, ocrCalls>>

(***************************************************************************)
(* PDFConverter.convert and the background task _pdf_to_pptx_task          *)
(***************************************************************************)
pvarsButLog == <<pc, image_paths, cfg, idx, slide_data, generator, slides_count,
                 total_text_blocks, result, exc, pageLog, loaded, ocrCalls>>

\* A failure result built without its error_message.
PdfFailure_no_message ==
    [present |-> TRUE, success |-> FALSE, has_output_path |-> FALSE,
     has_error_message |-> FALSE, pages_count |-> 0]

\* PDFConversionResult(success=False, error_message=...)
PdfFailure ==
    [present |-> TRUE, success |-> FALSE, has_output_path |-> FALSE,
     has_error_message |-> TRUE, pages_count |-> 0]

\* PDFConversionResult(success=True, output_path=output_path, pages_count=...)
PdfSuccess(page_count) ==
    [present |-> TRUE, success |-> TRUE, has_output_path |-> TRUE,
     has_error_message |-> FALSE, pages_count |-> page_count]

\* The keyword parameters PPTConverter.__init__ declares, and the keywords
\* _convert_image_pdf passes it: a keyword outside the declared ones is a
\* TypeError at the call.
PPTConverterInitParams == {"api_key", "secret_key", "confidence_threshold"}

ConvertImagePdfKwargs == {"api_key", "secret_key", "reference_text"}

PPTConverterInitRaises == ~(ConvertImagePdfKwargs \subseteq PPTConverterInitParams)

\* progress_callback of the task: task.set_progress(progress); commit
SetProgress(t, what) == [t EXCEPT !.progress = what]

\* convert_pdf_to_pptx lines 136-153: the Task row is created PENDING and the
\* background task is submitted
SubmitTask ==
    /\ pc = "idle"
    /\ tpc = "idle"
    /\ pdf' \in [exists : BOOLEAN, detect : {"image", "vector", "raise"},
                 page_count : 0..MaxPages, creds : BOOLEAN, task_found : BOOLEAN,
                 reference : BOOLEAN]
    \* _is_image_based_pdf answers False for a PDF without pages
    /\ (pdf'.detect = "image" => pdf'.page_count > 0)
    \* what is not consulted is fixed
    /\ (~pdf'.exists => pdf'.detect = "raise")
    /\ (pdf'.detect # "image" => ~pdf'.creds)
    \* load_reference_text is called on the image path only, after the
    \* credentials check
    /\ (~pdf'.creds => ~pdf'.reference)
    /\ (pdf'.detect = "raise" => pdf'.page_count = 0)
    /\ task' = [found |-> TRUE, status |-> "PENDING", progress |-> "none",
                has_error_message |-> FALSE]
    /\ statusLog' = <<"PENDING">>
    /\ tpc' = "queued"
    /\ UNCHANGED <<presult, vpage, log, pvarsButLog>>

\* lines 33-35: Task.query.get finds no row, the function returns
TaskNotFound ==
    /\ tpc = "queued"
    /\ ~pdf.task_found
    /\ task' = NoTask
    /\ tpc' = "returned"
    /\ UNCHANGED <<pdf, presult, vpage, statusLog, log, pvarsButLog>>

\* lines 37-39
TaskBegin ==
    /\ tpc = "queued"
    /\ pdf.task_found
    /\ task' = [task EXCEPT !.status = "PROCESSING"]
    /\ statusLog' = Append(statusLog, "PROCESSING")
    /\ tpc' = "convert"
    /\ UNCHANGED <<pdf, presult, vpage, log, pvarsButLog>>

\* PDFConverter.convert lines 63-67
ConvertPdfMissing ==
    /\ tpc = "convert"
    /\ ~pdf.exists
    /\ presult' = PdfFailure
    /\ tpc' = "finish"
    /\ UNCHANGED <<task, pdf, vpage, statusLog, log, pvarsButLog>>

\* _is_image_based_pdf raises on an unreadable PDF: lines 80-85
ConvertDetectRaises ==
    /\ tpc = "convert"
    /\ pdf.exists
    /\ pdf.detect = "raise"
    /\ presult' = PdfFailure
    /\ tpc' = "finish"
    /\ UNCHANGED <<task, pdf, vpage, statusLog, log, pvarsButLog>>

\* _convert_image_pdf lines 126-131: no OCR credentials
ConvertImageNoCreds ==
    /\ tpc = "convert"
    /\ pdf.exists
    /\ pdf.detect = "image"
    /\ ~pdf.creds
    /\ presult' = PdfFailure
    /\ tpc' = "finish"
    /\ UNCHANGED <<task, pdf, vpage, statusLog, log, pvarsButLog>>

\* _convert_image_pdf lines 137-165: the pages are rendered to images, one
\* 'extracting' event before the loop and one per page
ExtractingEvents(n) ==
    [i \in 1..(n + 1) |-> Event("extracting", i - 1, n, {"current_page", "total"}, 0)]

ConvertImageExtract ==
    /\ tpc = "convert"
    /\ pdf.exists
    /\ pdf.detect = "image"
    /\ pdf.creds
    /\ log' = log \o ExtractingEvents(pdf.page_count)
    /\ task' = SetProgress(task, "event")
    /\ tpc' = "construct"
    /\ UNCHANGED <<pdf, presult, vpage, statusLog, pvarsButLog>>

\* lines 167-177 and 199-204: reference_text is what load_reference_text
\* found (None without a reference file); PPTConverter(..., reference_text=
\* reference_text) raises TypeError either way, which the except clause turns
\* into a failure result; convert_images is not reached
ConvertImageConstructRaises ==
    /\ tpc = "construct"
    /\ PPTConverterInitRaises
    /\ presult' = PdfFailure
    /\ tpc' = "finish"
    /\ UNCHANGED <<task, pdf, vpage, statusLog, log, pvarsButLog>>

\* _convert_vector_pdf lines 227-231
ConvertVectorEmpty ==
    /\ tpc = "convert"
    /\ pdf.exists
    /\ pdf.detect = "vector"
    /\ pdf.page_count = 0
    /\ presult' = PdfFailure
    /\ tpc' = "finish"
    /\ UNCHANGED <<task, pdf, vpage, statusLog, log, pvarsButLog>>

ConvertVectorStart ==
    /\ tpc = "convert"
    /\ pdf.exists
    /\ pdf.detect = "vector"
    /\ pdf.page_count > 0
    /\ vpage' = 1
    /\ tpc' = "vector"
    /\ UNCHANGED <<task, pdf, presult, statusLog, log, pvarsButLog>>

\* lines 233-256: one page parsed and added
VectorPage ==
    /\ tpc = "vector"
    /\ vpage <= pdf.page_count
    /\ \E n \in 0..MaxFrags :
          log' = log \o
                 <<Event("parsing", vpage, pdf.page_count, {"current_page", "total"}, 0),
                   Event("page_done", vpage, pdf.page_count,
                         {"current_page", "total", "completed", "text_blocks_count"}, n)>>
    /\ task' = SetProgress(task, "event")
    /\ vpage' = vpage + 1
    /\ UNCHANGED <<tpc, pdf, presult, statusLog, pvarsButLog>>

\* parse_page or _add_slide raises: lines 278-283
VectorPageRaises ==
    /\ tpc = "vector"
    /\ vpage <= pdf.page_count
    /\ log' = Append(log, Event("parsing", vpage, pdf.page_count, {"current_page", "total"}, 0))
    /\ task' = SetProgress(task, "event")
    /\ presult' = PdfFailure
    /\ tpc' = "finish"
    /\ UNCHANGED <<pdf, vpage, statusLog, pvarsButLog>>

\* lines 258-276
VectorSaveOk ==
    /\ tpc = "vector"
    /\ vpage > pdf.page_count
    /\ log' = Append(log, Event("generating", pdf.page_count, pdf.page_count,
                                {"current_page", "total", "completed"}, 0))
    /\ task' = SetProgress(task, "event")
    /\ presult' = PdfSuccess(pdf.page_count)
    /\ tpc' = "finish"
    /\ UNCHANGED <<pdf, vpage, statusLog, pvarsButLog>>

\* prs.save raises: lines 278-283
VectorSaveRaises ==
    /\ tpc = "vector"
    /\ vpage > pdf.page_count
    /\ log' = Append(log, Event("generating", pdf.page_count, pdf.page_count,
                                {"current_page", "total", "completed"}, 0))
    /\ task' = SetProgress(task, "event")
    /\ presult' = PdfFailure
    /\ tpc' = "finish"
    /\ UNCHANGED <<pdf, vpage, statusLog, pvarsButLog>>

\* The else branch forgotten: a failure result leaves the row as it is.
task_after_convert_no_else(t, r) ==
    IF r.success
    THEN [t EXCEPT !.status = "COMPLETED",
                   !.progress = IF r.has_output_path THEN "summary" ELSE "summary_no_path"]
    ELSE t

\* _pdf_to_pptx_task lines 60-72: the Task row after convert returned r
task_after_convert(t, r) ==
    IF r.success
    THEN [t EXCEPT !.status = "COMPLETED",
                   !.progress = IF r.has_output_path THEN "summary" ELSE "summary_no_path"]
    ELSE [t EXCEPT !.status = "FAILED", !.has_error_message = r.has_error_message]

TaskFinish ==
    /\ tpc = "finish"
    /\ task' = task_after_convert(task, presult)
    /\ statusLog' = Append(statusLog, task'.status)
    /\ tpc' = "returned"
    /\ UNCHANGED <<pdf, presult, vpage, log, pvarsButLog>>

Init ==
    /\ PipelineIdle
    /\ FilterIdle
    /\ TaskIdle
    /\ XIdle

Next ==
    \/ (CallConvertImages /\ UNCHANGED <<fvars, tvars, xvars>>)
    \/ (LoopHead /\ UNCHANGED <<fvars, tvars, xvars>>)
    \/ (ProcessMissing /\ UNCHANGED <<fvars, tvars, xvars>>)
    \/ (ProcessLoadRaises /\ UNCHANGED <<fvars, tvars, xvars>>)
    \/ (ProcessCredsMissing /\ UNCHANGED <<fvars, tvars, xvars>>)
    \/ (ProcessOcrRaises /\ UNCHANGED <<fvars, tvars, xvars>>)
    \/ (ProcessOk /\ UNCHANGED <<fvars, tvars, xvars>>)
    \/ (LoopTail /\ UNCHANGED <<fvars, tvars, xvars>>)
    \/ (Generating /\ UNCHANGED <<fvars, tvars, xvars>>)
    \/ (SaveOk /\ UNCHANGED <<fvars, tvars, xvars>>)
    \/ (SaveRaises /\ UNCHANGED <<fvars, tvars, xvars>>)
    \/ (SubmitTask /\ UNCHANGED <<fvars, xvars>>)
    \/ (TaskNotFound /\ UNCHANGED <<fvars, xvars>>)
    \/ (TaskBegin /\ UNCHANGED <<fvars, xvars>>)
    \/ (ConvertPdfMissing /\ UNCHANGED <<fvars, xvars>>)
    \/ (ConvertDetectRaises /\ UNCHANGED <<fvars, xvars>>)
    \/ (ConvertImageNoCreds /\ UNCHANGED <<fvars, xvars>>)
    \/ (ConvertImageExtract /\ UNCHANGED <<fvars, xvars>>)
    \/ (ConvertImageConstructRaises /\ UNCHANGED <<fvars, xvars>>)
    \/ (ConvertVectorEmpty /\ UNCHANGED <<fvars, xvars>>)
    \/ (ConvertVectorStart /\ UNCHANGED <<fvars, xvars>>)
    \/ (VectorPage /\ UNCHANGED <<fvars, xvars>>)
    \/ (VectorPageRaises /\ UNCHANGED <<fvars, xvars>>)
    \/ (VectorSaveOk /\ UNCHANGED <<fvars, xvars>>)
    \/ (VectorSaveRaises /\ UNCHANGED <<fvars, xvars>>)
    \/ (TaskFinish /\ UNCHANGED <<fvars, xvars>>)

Spec == Init /\ [][Next]_vars


InitFilter ==
    /\ fPc = "ready"
    /\ fIn \in FilterInputs
    /\ fLlm \in LlmOutcomes
    /\ fOut = NoOut
    /\ PipelineIdle
    /\ TaskIdle
    /\ XIdle

FilterCall ==
    /\ fPc = "ready"
    /\ fOut' = filter_text_blocks(fIn, fLlm)
    /\ fPc' = "done"
    /\ UNCHANGED <<fIn, fLlm>>
    /\ UNCHANGED <<pvars, tvars, xvars>>

NextFilter == FilterCall

SpecFilter == InitFilter /\ [][NextFilter]_vars

(***************************************************************************)
(* BaiduOCRClient.recognize                                                *)
(***************************************************************************)
MAX_DIMENSION == 4096

\* Characters of OCR texts: "zh" is an ideograph in U+4E00..U+9FFF, "bullet"
\* the sign U+25CF (listed in SYMBOL_ONLY_PATTERN), "refmark" the sign U+203B
\* and "fullstop" the ideographic full stop U+3002 (symbols the pattern does
\* not list).
PatternSymbols == {".", ",", "-", "bullet"}

CJK == {"zh"}

\* SYMBOL_ONLY_PATTERN.match(text): one or more of \s and the listed symbols
SymbolOnly(text) ==
    text # <<>> /\ \A i \in 1..Len(text) : text[i] \in PatternSymbols \/ IsSpace(text[i])

\* A single character judged by its confidence alone, whatever its script.
is_valid_text_single_by_confidence(text0, confidence) ==
    LET text == strip(text0)
    IN  IF text = <<>> THEN FALSE
        ELSE IF SymbolOnly(text) THEN FALSE
        ELSE IF Len(text) <= 2 THEN confidence >= 50
        ELSE TRUE

\* _is_valid_text; confidence in hundredths
is_valid_text(text0, confidence) ==
    LET text == strip(text0)
    IN  IF text = <<>> THEN FALSE
        ELSE IF SymbolOnly(text) THEN FALSE
        ELSE IF Len(text) = 1
             THEN (IF text[1] \in CJK THEN confidence >= 50 ELSE FALSE)
        ELSE IF Len(text) = 2 THEN confidence >= 50
        ELSE TRUE

\* _prepare_image: the scale factor MAX_DIMENSION / max_side as a fraction
prepare_image(img) ==
    LET max_side == IF img.width >= img.height THEN img.width ELSE img.height
    IN  IF max_side > MAX_DIMENSION
        THEN [num |-> MAX_DIMENSION, den |-> max_side]
        ELSE [num |-> 1, den |-> 1]

\* The reported coordinate multiplied by the scale factor once more.
restore_multiplies(v, scale) == (v * scale.num) \div scale.den

\* int(v / scale_factor) for v >= 0
restore(v, scale) == (v * scale.den) \div scale.num

\* prob.get("average", 0.9)
Average(item) == IF item.probability.present THEN item.probability.average ELSE 90

\* the loop "for item in words_result" of recognize
RECURSIVE recognize_loop(_, _, _)
recognize_loop(words_result, confidence_threshold, scale) ==
    IF words_result = <<>> THEN <<>>
    ELSE LET item == Head(words_result)
             confidence == Average(item)
             rest == recognize_loop(Tail(words_result), confidence_threshold, scale)
         IN  IF confidence < confidence_threshold THEN rest
             ELSE IF ~is_valid_text(item.words, confidence) THEN rest
             ELSE <<[text |-> item.words,
                     bbox |-> [left |-> restore(item.location.left, scale),
                               top |-> restore(item.location.top, scale),
                               width |-> restore(item.location.width, scale),
                               height |-> restore(item.location.height, scale)],
                     confidence |-> confidence]>> \o rest

\* recognize when the service answers a result
RecognizeOk ==
    /\ oPc = "ready"
    /\ ~oResp.error
    /\ oOut' = recognize_loop(oResp.words_result, oThreshold, prepare_image(oImage))
    /\ oPc' = "done"
    /\ UNCHANGED <<oImage, oResp, oThreshold, oTruth>>

\* recognize when the service answers an error_code: ValueError
RecognizeRaises ==
    /\ oPc = "ready"
    /\ oResp.error
    /\ oPc' = "raised"
    /\ UNCHANGED <<oImage, oResp, oThreshold, oTruth, oOut>>

(***************************************************************************)
(* SpecOcr: recognize on bounded service answers                           *)
(***************************************************************************)
OcrTexts ==
    {<<>>, <<" ">>, <<"a">>, <<"zh">>, <<"7">>, <<".">>, <<"refmark">>,
     <<"a", " ">>, <<" ", "zh", " ">>, <<"zh", "a">>, <<".", "bullet">>,
     <<"a", ".">>, <<"refmark", "refmark">>, <<"a", "7", "zh">>,
     <<".", " ", "-">>, <<"fullstop", "fullstop", "fullstop">>}

OcrProbabilities ==
    {[present |-> FALSE, average |-> 0]}
        \cup {[present |-> TRUE, average |-> a] : a \in {40, 55, 70}}

OcrThresholds == {30, 60}

FixedLocation == [left |-> 10, top |-> 20, width |-> 30, height |-> 40]

OcrItems ==
    {[words |-> w, probability |-> p, location |-> FixedLocation] :
        w \in OcrTexts, p \in OcrProbabilities}

\* images above the service's size limit, and the boxes of a text on them
ScaleImages ==
    {[width |-> 4097, height |-> 3000], [width |-> 6000, height |-> 4000],
     [width |-> 3000, height |-> 8192], [width |-> 16384, height |-> 8192]}

TrueBoxes ==
    {[left |-> l, top |-> t, width |-> w, height |-> h] :
        l \in 0..MaxCoord, t \in 0..MaxCoord, w \in 0..MaxCoord, h \in 0..MaxCoord}

\* The service sees the image scaled by scale and reports whole pixels: the
\* scaled coordinate rounded down or to the nearest pixel.
ServiceReports(v, scale, rounding) ==
    IF rounding = "floor" THEN (v * scale.num) \div scale.den
    ELSE (2 * v * scale.num + scale.den) \div (2 * scale.den)

ServiceLocation(box, scale, rounding) ==
    [left |-> ServiceReports(box.left, scale, rounding),
     top |-> ServiceReports(box.top, scale, rounding),
     width |-> ServiceReports(box.width, scale, rounding),
     height |-> ServiceReports(box.height, scale, rounding)]

InitOcrTexts ==
    /\ oImage = [width |-> 1024, height |-> 768]
    /\ oTruth = FixedLocation
    /\ oThreshold \in OcrThresholds
    /\ \/ oResp \in {[error |-> FALSE, words_result |-> ws] : ws \in SeqsUpTo(OcrItems, MaxItems)}
       \/ oResp = [error |-> TRUE, words_result |-> <<>>]

InitOcrScaled ==
    /\ oImage \in ScaleImages
    /\ oTruth \in TrueBoxes
    /\ oThreshold = 60
    /\ \E rounding \in {"floor", "nearest"} :
          oResp = [error |-> FALSE,
                   words_result |->
                      <<[words |-> <<"a", "7", "zh">>,
                         probability |-> [present |-> TRUE, average |-> 95],
                         location |-> ServiceLocation(oTruth, prepare_image(oImage), rounding)]>>]

InitOcr ==
    /\ oPc = "ready"
    /\ oOut = <<>>
    /\ (InitOcrTexts \/ InitOcrScaled)
    /\ PipelineIdle
    /\ FilterIdle
    /\ TaskIdle
    /\ CorrectorIdle
    /\ CleanIdle
    /\ FontIdle
    /\ YIdle

NextOcr ==
    \/ (RecognizeOk /\ UNCHANGED <<fvars, pvars, tvars, cvars, rvars, evars, yvars>>)
    \/ (RecognizeRaises /\ UNCHANGED <<fvars, pvars, tvars, cvars, rvars, evars, yvars>>)

SpecOcr == InitOcr /\ [][NextOcr]_vars

(***************************************************************************)
(* TextCorrector                                                           *)
(***************************************************************************)
\* Characters of reference lines: "di" and "ye" are the two signs of the
\* page marker ("##" "di" N "ye"); "ym1" "ym2" "bt1" "bt2" "wz1" "wz2" "qt1"
\* "qt2" "sc1" "sc2" and "colon" (the full-width colon) spell the prefixes
\* the cleaner removes; "shi" and "dai" are ideographs, "comma" is the
\* full-width comma.
SubSeqFrom(s, i) == SubSeq(s, i, Len(s))

\* length of the longest run of characters other than "*" starting at s[i]
RECURSIVE PlainRun(_, _)
PlainRun(s, i) ==
    IF i > Len(s) \/ s[i] = "*" THEN 0 ELSE 1 + PlainRun(s, i + 1)

\* re.sub(r'\*\*([^*]+)\*\*', r'\1', text) from position i
RECURSIVE sub_bold(_, _)
sub_bold(s, i) ==
    IF i > Len(s) THEN <<>>
    ELSE LET n == PlainRun(s, i + 2)
             matches == /\ i + 1 <= Len(s) /\ s[i] = "*" /\ s[i + 1] = "*"
                        /\ n >= 1
                        /\ i + 2 + n + 1 <= Len(s)
                        /\ s[i + 2 + n] = "*" /\ s[i + 2 + n + 1] = "*"
         IN  IF matches THEN SubSeq(s, i + 2, i + 1 + n) \o sub_bold(s, i + 2 + n + 2)
             ELSE <<s[i]>> \o sub_bold(s, i + 1)

\* re.sub(r'\*([^*]+)\*', r'\1', text) from position i
RECURSIVE sub_italic(_, _)
sub_italic(s, i) ==
    IF i > Len(s) THEN <<>>
    ELSE LET n == PlainRun(s, i + 1)
             matches == /\ s[i] = "*" /\ n >= 1
                        /\ i + 1 + n <= Len(s) /\ s[i + 1 + n] = "*"
         IN  IF matches THEN SubSeq(s, i + 1, i + n) \o sub_italic(s, i + 1 + n + 1)
             ELSE <<s[i]>> \o sub_italic(s, i + 1)

\* re.sub(r'^[-*]\s*', '', text)
sub_list_item(s) ==
    IF s # <<>> /\ s[1] \in {"-", "*"} THEN lstrip(Tail(s)) ELSE s

\* re.sub(r'^\|.*\|$', '', text)
sub_table_row(s) ==
    IF Len(s) >= 2 /\ s[1] = "|" /\ s[Len(s)] = "|" THEN <<>> ELSE s

\* re.sub(r'^:?-+:?$', '', text)
sub_table_rule(s) ==
    LET a == IF s # <<>> /\ s[1] = ":" THEN Tail(s) ELSE s
        b == IF a # <<>> /\ a[Len(a)] = ":" THEN SubSeq(a, 1, Len(a) - 1) ELSE a
        Dashes(t) == t # <<>> /\ \A k \in 1..Len(t) : t[k] = "-"
    IN  IF Dashes(a) \/ Dashes(b) THEN <<>> ELSE s

HasPrefix(s, p) == Len(s) >= Len(p) /\ SubSeq(s, 1, Len(p)) = p

\* re.sub(r'^页面(标题|文字)：', '', text)
PagePrefixes ==
    {<<"ym1", "ym2", "bt1", "bt2", "colon">>, <<"ym1", "ym2", "wz1", "wz2", "colon">>}

sub_page_prefix(s) ==
    IF \E p \in PagePrefixes : HasPrefix(s, p) THEN SubSeqFrom(s, 6) ELSE s

\* re.sub(r'^其他页面素材：', '', text)
OtherPrefix == <<"qt1", "qt2", "ym1", "ym2", "sc1", "sc2", "colon">>

sub_other_prefix(s) ==
    IF HasPrefix(s, OtherPrefix) THEN SubSeqFrom(s, Len(OtherPrefix) + 1) ELSE s

\* _clean_text
clean_text(text) ==
    strip(sub_other_prefix(sub_page_prefix(sub_table_rule(sub_table_row(sub_list_item(
        sub_italic(sub_bold(text, 1), 1)))))))

\* re.match(r'##第(\d+)页', line): [matched, page]
DigitRun(s, i) ==
    LET after == {k \in i..Len(s) : s[k] \notin AsciiDigits}
    IN  IF after = {} THEN Len(s) - i + 1
        ELSE (CHOOSE k \in after : \A m \in after : k <= m) - i

page_match(line) ==
    LET n == DigitRun(line, 4)
    IN  IF /\ Len(line) >= 5
           /\ SubSeq(line, 1, 3) = <<"#", "#", "di">>
           /\ n >= 1
           /\ 4 + n <= Len(line)
           /\ line[4 + n] = "ye"
        THEN [matched |-> TRUE, page |-> int(SubSeq(line, 4, 3 + n))]
        ELSE [matched |-> FALSE, page |-> 0]

\* pages[current_page] = current_lines, when there is something to save
SavePage(pages, current_page, current_lines) ==
    IF current_lines # <<>> /\ current_page > 0
    THEN [p \in (DOMAIN pages) \cup {current_page} |->
             IF p = current_page THEN current_lines ELSE pages[p]]
    ELSE pages

\* the loop of _parse_reference_text from line i
RECURSIVE parse_loop(_, _, _, _, _)
parse_loop(lines, i, pages, current_page, current_lines) ==
    IF i > Len(lines) THEN SavePage(pages, current_page, current_lines)
    ELSE LET line == strip(lines[i])
             m == page_match(line)
             clean_line == clean_text(line)
         IN  IF line = <<>>
             THEN parse_loop(lines, i + 1, pages, current_page, current_lines)
             ELSE IF m.matched
             THEN parse_loop(lines, i + 1, SavePage(pages, current_page, current_lines),
                             m.page, <<>>)
             ELSE IF clean_line # <<>>
             THEN parse_loop(lines, i + 1, pages, current_page,
                             Append(current_lines, clean_line))
             ELSE parse_loop(lines, i + 1, pages, current_page, current_lines)

\* _parse_reference_text: a function from page numbers to lists of lines
parse_reference_text(lines) == parse_loop(lines, 1, <<>>, 0, <<>>)

\* re.split(r'[，。、；：！？]', clean)
SplitPunctuation == {"comma", "colon"}

RECURSIVE split_punctuation(_, _)
split_punctuation(s, acc) ==
    IF s = <<>> THEN <<acc>>
    ELSE IF Head(s) \in SplitPunctuation THEN <<acc>> \o split_punctuation(Tail(s), <<>>)
    ELSE split_punctuation(Tail(s), Append(acc, Head(s)))

RECURSIVE sub_segments(_)
sub_segments(parts) ==
    IF parts = <<>> THEN <<>>
    ELSE LET part == strip(Head(parts))
         IN  (IF Len(part) >= 2 THEN <<part>> ELSE <<>>) \o sub_segments(Tail(parts))

\* _extract_segments
RECURSIVE extract_segments(_)
extract_segments(lines) ==
    IF lines = <<>> THEN <<>>
    ELSE LET clean == clean_text(Head(lines))
         IN  (IF Len(clean) >= 2
              THEN <<clean>> \o (IF Len(clean) > 20
                                 THEN sub_segments(split_punctuation(clean, <<>>))
                                 ELSE <<>>)
              ELSE <<>>)
             \o extract_segments(Tail(lines))

\* Scores are fractions [num, den] with den > 0.
Frac(n, d) == [num |-> n, den |-> d]

Less(x, y) == x.num * y.den < y.num * x.den

\* SequenceMatcher.find_longest_match without junk (texts shorter than 200
\* characters): the longest common block, the earliest in a among the
\* longest, the earliest in b among those; indices are 1-based, inclusive.
Blocks(a, b, alo, ahi, blo, bhi) ==
    {t \in (alo..ahi) \X (blo..bhi) \X (1..(ahi - alo + 1)) :
        /\ t[1] + t[3] - 1 <= ahi
        /\ t[2] + t[3] - 1 <= bhi
        /\ SubSeq(a, t[1], t[1] + t[3] - 1) = SubSeq(b, t[2], t[2] + t[3] - 1)}

find_longest_match(a, b, alo, ahi, blo, bhi) ==
    LET bs == Blocks(a, b, alo, ahi, blo, bhi)
    IN  CHOOSE t \in bs :
            \A u \in bs :
                \/ t[3] > u[3]
                \/ t[3] = u[3] /\ t[1] < u[1]
                \/ t[3] = u[3] /\ t[1] = u[1] /\ t[2] <= u[2]

\* the total size of SequenceMatcher.get_matching_blocks
RECURSIVE matching_size(_, _, _, _, _, _)
matching_size(a, b, alo, ahi, blo, bhi) ==
    IF alo > ahi \/ blo > bhi \/ Blocks(a, b, alo, ahi, blo, bhi) = {} THEN 0
    ELSE LET t == find_longest_match(a, b, alo, ahi, blo, bhi)
         IN  t[3] + matching_size(a, b, alo, t[1] - 1, blo, t[2] - 1)
                  + matching_size(a, b, t[1] + t[3], ahi, t[2] + t[3], bhi)

\* _similarity: SequenceMatcher(None, s1, s2).ratio()
similarity(s1, s2) ==
    IF s1 = <<>> \/ s2 = <<>> THEN Frac(0, 1)
    ELSE Frac(2 * matching_size(s1, s2, 1, Len(s1), 1, Len(s2)), Len(s1) + Len(s2))

\* the loop of _is_partial_match: the number of characters of ocr_text,
\* from position i, found in order in ref_text from position ref_idx
RECURSIVE partial_matched(_, _, _, _)
partial_matched(ocr_text, ref_text, i, ref_idx) ==
    IF i > Len(ocr_text) THEN 0
    ELSE LET hits == {k \in ref_idx..Len(ref_text) : ref_text[k] = ocr_text[i]}
         IN  IF hits = {} THEN 0
             ELSE LET k == CHOOSE h \in hits : \A g \in hits : h <= g
                  IN  1 + partial_matched(ocr_text, ref_text, i + 1, k + 1)

\* The coverage measured against the length of the reference line.
is_partial_match_ref_length(ocr_text, ref_text) ==
    IF Len(ocr_text) >= Len(ref_text) THEN FALSE
    ELSE 5 * partial_matched(ocr_text, ref_text, 1, 1) >= 4 * Len(ref_text)

\* _is_partial_match: matched >= len(ocr_text) * 0.8
is_partial_match(ocr_text, ref_text) ==
    IF Len(ocr_text) >= Len(ref_text) THEN FALSE
    ELSE 5 * partial_matched(ocr_text, ref_text, 1, 1) >= 4 * Len(ocr_text)

\* "ocr_text in ref_text"
Contains(ocr_text, ref_text) ==
    \E i \in 1..(Len(ref_text) - Len(ocr_text) + 1) :
        SubSeq(ref_text, i, i + Len(ocr_text) - 1) = ocr_text

\* One pass of a candidate loop of _find_best_match over cands from
\* position i; best is [found, text, score, via], returned says that the
\* function returned from inside the loop.
RECURSIVE match_loop(_, _, _, _)
match_loop(ocr_text, cands, i, best) ==
    IF i > Len(cands) THEN [best |-> best, returned |-> FALSE]
    ELSE LET ref_text == cands[i]
             pscore == Frac(10 * Len(ocr_text) + 3 * Len(ref_text), 10 * Len(ref_text))
             afterPartial ==
                 IF is_partial_match(ocr_text, ref_text) /\ Less(best.score, pscore)
                 THEN [found |-> TRUE, text |-> ref_text, via |-> "partial",
                       score |-> IF Less(pscore, Frac(95, 100)) THEN pscore
                                 ELSE Frac(95, 100)]
                 ELSE best
             sscore == similarity(ocr_text, ref_text)
             afterSimilarity ==
                 IF Less(afterPartial.score, sscore)
                 THEN [found |-> TRUE, text |-> ref_text, via |-> "similarity",
                       score |-> sscore]
                 ELSE afterPartial
         IN  IF Contains(ocr_text, ref_text)
             THEN [best |-> [found |-> TRUE, text |-> ref_text, via |-> "contains",
                             score |-> Frac(1, 1)],
                   returned |-> TRUE]
             ELSE match_loop(ocr_text, cands, i + 1, afterSimilarity)

\* self.pages_text and self.all_segments, set by __init__
pages_text == parse_reference_text(cRef)

all_segments == extract_segments(cRef)

\* _find_best_match
find_best_match(ocr_text, page_num) ==
    IF Len(ocr_text) < 2 THEN NoMatch
    ELSE LET inPage ==
                 IF page_num # 0 /\ page_num \in DOMAIN pages_text
                 THEN match_loop(ocr_text, pages_text[page_num], 1, NoMatch)
                 ELSE [best |-> NoMatch, returned |-> FALSE]
         IN  IF inPage.returned THEN inPage.best
             ELSE IF Less(inPage.best.score, Frac(cThreshold, 100))
             THEN match_loop(ocr_text, all_segments, 1, inPage.best).best
             ELSE inPage.best

\* The trimmed text written back when nothing replaces it.
correct_text_block_writes_trimmed(text_block, page_num) ==
    LET ocr_text == strip(text_block.text)
        m == find_best_match(ocr_text, page_num)
    IN  IF ocr_text = <<>> THEN [block |-> text_block, match |-> NoMatch]
        ELSE IF m.found /\ ~Less(m.score, Frac(cThreshold, 100)) /\ m.text # ocr_text
        THEN [block |-> [text_block EXCEPT !.text = m.text], match |-> m]
        ELSE [block |-> [text_block EXCEPT !.text = ocr_text], match |-> m]

\* correct_text_block: [block, match]
correct_text_block(text_block, page_num) ==
    LET ocr_text == strip(text_block.text)
        m == find_best_match(ocr_text, page_num)
    IN  IF ocr_text = <<>> THEN [block |-> text_block, match |-> NoMatch]
        ELSE IF m.found /\ ~Less(m.score, Frac(cThreshold, 100)) /\ m.text # ocr_text
        THEN [block |-> [text_block EXCEPT !.text = m.text], match |-> m]
        ELSE [block |-> text_block, match |-> m]

CorrectTextBlock ==
    /\ cPc = "ready"
    /\ LET r == correct_text_block(cBlock, cPage)
       IN  cOut' = r.block /\ cMatch' = r.match
    /\ cPc' = "done"
    /\ UNCHANGED <<cRef, cThreshold, cBlock, cPage>>

(***************************************************************************)
(* SpecCorrector: correct_text_block on bounded reference texts            *)
(***************************************************************************)
Marker(n) == <<"#", "#", "di", n, "ye">>

RefLines ==
    {Marker("1"), Marker("2"), Marker("0"),
     <<"A", "I", "shi", "dai">>,
     <<"*", "*", "A", "I", "*", "*", "shi", "dai">>,
     <<" ", "-", " ", "A", "shi", "dai", "X">>,
     <<"A", "I">>,
     <<"ym1", "ym2", "bt1", "bt2", "colon", "shi", "dai">>,
     <<"|", "A", "|">>,
     <<>>}

RefTexts == SeqsUpTo(RefLines, MaxRefLines)

Fragments ==
    {<<"A", "shi", "dai">>, <<"A">>, <<"A", "I">>, <<" ", "I", "shi", "dai">>,
     <<"shi", "dai", "X">>, <<"X", "Y", "Z">>, <<" ">>}

PageHints == {0, 1, 2}

CorrectorThresholds == {60}

\* a fragment of 11 characters, a line that lacks one of them and a line
\* that holds all of them, with two more in the middle
LongFragment == <<"c1", "c2", "c3", "c4", "c5", "c6", "c7", "c8", "c9", "c10", "c11">>

LongLineShort == <<"c1", "c2", "c3", "c4", "c5", "c7", "c8", "c9", "c10", "c11">>

LongLineWide ==
    <<"c1", "c2", "c3", "c4", "c5", "X", "Y", "c6", "c7", "c8", "c9", "c10", "c11">>

LongRefTexts ==
    {<<Marker("1"), LongLineShort, LongLineWide>>,
     <<Marker("1"), LongLineWide, LongLineShort>>,
     <<LongLineShort, LongLineWide>>,
     <<LongLineWide, LongLineShort>>}

InitCorrector ==
    /\ cPc = "ready"
    /\ \/ (cRef \in RefTexts /\ cBlock \in {[text |-> f] : f \in Fragments})
       \/ (cRef \in LongRefTexts /\ cBlock = [text |-> LongFragment])
    /\ cThreshold \in CorrectorThresholds
    /\ cPage \in PageHints
    /\ cMatch = NoMatch
    /\ cOut = [text |-> <<>>]
    /\ PipelineIdle
    /\ FilterIdle
    /\ TaskIdle
    /\ OcrIdle
    /\ CleanIdle
    /\ FontIdle
    /\ YIdle

NextCorrector == CorrectTextBlock /\ UNCHANGED <<fvars, pvars, tvars, ovars, rvars, evars, yvars>>

SpecCorrector == InitCorrector /\ [][NextCorrector]_vars

(***************************************************************************)
(* remove_text_regions                                                     *)
(***************************************************************************)
\* A bitmap is a function from the pixels <<column, row>> to values.  The
\* image passed in holds at every pixel the pixel's own coordinates; a
\* filled pixel holds Fill, an inpainted one Inpainted, so that every write
\* shows.
Pixels == (0..(ImgW - 1)) \X (0..(ImgH - 1))

OriginalImage == [p \in Pixels |-> p]

Fill == <<-1, -1>>

Inpainted == <<-2, -2>>

\* the pixels of the slice [y1:y2, x1:x2], for bounds that are not negative
Slice(x1, y1, x2, y2) ==
    {p \in Pixels : x1 <= p[1] /\ p[1] < x2 /\ y1 <= p[2] /\ p[2] < y2}

Max(a, b) == IF a >= b THEN a ELSE b

Min(a, b) == IF a <= b THEN a ELSE b

\* max(3, min(15, int(bh * 0.15)))
actual_padding(bh) == Max(3, Min(15, (bh * 15) \div 100))

\* [x1, y1, x2, y2] of lines 103-106
PaddedBox(bbox) ==
    LET pad == actual_padding(bbox.bh)
    IN  [x1 |-> Max(0, bbox.x - pad), y1 |-> Max(0, bbox.y - pad),
         x2 |-> Min(ImgW, bbox.x + bbox.bw + pad),
         y2 |-> Min(ImgH, bbox.y + bbox.bh + pad)]

SAMPLE_WIDTH == 15

\* _detect_background_color lines 52-63: the pixels sampled around the box
Samples(bbox) ==
    LET x == bbox.x
        y == bbox.y
        bw == bbox.bw
        bh == bbox.bh
    IN  (IF y > SAMPLE_WIDTH THEN Slice(x, y - SAMPLE_WIDTH, x + bw, y) ELSE {})
        \cup (IF y + bh + SAMPLE_WIDTH < ImgH
              THEN Slice(x, y + bh, x + bw, y + bh + SAMPLE_WIDTH) ELSE {})
        \cup (IF x > SAMPLE_WIDTH THEN Slice(x - SAMPLE_WIDTH, y, x, y + bh) ELSE {})
        \cup (IF x + bw + SAMPLE_WIDTH < ImgW
              THEN Slice(x + bw, y, x + bw + SAMPLE_WIDTH, y + bh) ELSE {})

\* is_solid: True without samples; with samples it depends on their colours,
\* which the box input carries as the flag solid
is_solid(box) == Samples(box.bbox) = {} \/ box.solid

Write(bitmap, region, value) ==
    [p \in Pixels |-> IF p \in region THEN value ELSE bitmap[p]]

\* cv2.inpaint(result, edge_mask, 3, cv2.INPAINT_TELEA): a new bitmap, the
\* masked pixels recomputed, the others copied
inpaint(bitmap, mask) == Write(bitmap, mask, Inpainted)

\* one pass of the loop body, lines 96-128
erase_box(bitmap, box) ==
    LET b == PaddedBox(box.bbox)
        outer == Slice(b.x1, b.y1, b.x2, b.y2)
        cx1 == b.x1 + 2
        cy1 == b.y1 + 2
        cx2 == b.x2 - 2
        cy2 == b.y2 - 2
        hasCenter == cx2 > cx1 /\ cy2 > cy1
        center == IF hasCenter THEN Slice(cx1, cy1, cx2, cy2) ELSE {}
        edge_mask == outer \ center
        filled == Write(bitmap, center, Fill)
    IN  IF is_solid(box) THEN Write(bitmap, outer, Fill)
        ELSE IF edge_mask # {} THEN inpaint(filled, edge_mask)
        ELSE filled

RECURSIVE erase_loop(_, _)
erase_loop(bitmap, bboxes) ==
    IF bboxes = <<>> THEN bitmap
    ELSE erase_loop(erase_box(bitmap, Head(bboxes)), Tail(bboxes))

\* result = image instead of image.copy(): the caller's bitmap is written.
remove_text_regions_in_place(image, bboxes) ==
    IF bboxes = <<>> THEN [image |-> image, result |-> image]
    ELSE LET written == erase_loop(image, bboxes)
         IN  [image |-> written, result |-> written]

\* remove_text_regions: [image, result], the caller's bitmap after the call
\* and the bitmap returned; every write goes to the copy
remove_text_regions(image, bboxes) ==
    IF bboxes = <<>> THEN [image |-> image, result |-> image]
    ELSE [image |-> image, result |-> erase_loop(image, bboxes)]

RemoveTextRegions ==
    /\ rPc = "ready"
    /\ LET r == remove_text_regions(rImage, rBoxes)
       IN  rImage' = r.image /\ rOut' = r.result
    /\ rPc' = "done"
    /\ UNCHANGED rBoxes

(***************************************************************************)
(* SpecClean: remove_text_regions on bounded box lists                     *)
(***************************************************************************)
BoxInputs ==
    {[bbox |-> [x |-> x, y |-> y, bw |-> bw, bh |-> bh], solid |-> s] :
        x \in {0, 17}, y \in {0, 2}, bw \in {1, 4}, bh \in {1, 30}, s \in BOOLEAN}

InitClean ==
    /\ rPc = "ready"
    /\ rBoxes \in SeqsUpTo(BoxInputs, MaxBoxes)
    /\ rImage = OriginalImage
    /\ rOut = <<>>
    /\ PipelineIdle
    /\ FilterIdle
    /\ TaskIdle
    /\ OcrIdle
    /\ CorrectorIdle
    /\ FontIdle
    /\ YIdle

NextClean == RemoveTextRegions /\ UNCHANGED <<fvars, pvars, tvars, ovars, cvars, evars, yvars>>

SpecClean == InitClean /\ [][NextClean]_vars

(***************************************************************************)
(* estimate_font_size_pt                                                   *)
(***************************************************************************)
SLIDE_HEIGHT_PT == 540

\* int(n / d) for d > 0: truncation towards zero
Trunc(n, d) == IF n >= 0 THEN n \div d ELSE -((-n) \div d)

\* The lower limit forgotten.
estimate_font_size_pt_no_floor(bbox_height, image_height) ==
    IF image_height <= 0 THEN 12
    ELSE Min(Trunc(bbox_height * SLIDE_HEIGHT_PT, image_height), 144)

\* estimate_font_size_pt with slide_height_pt at its default
estimate_font_size_pt(bbox_height, image_height) ==
    IF image_height <= 0 THEN 12
    ELSE Max(8, Min(Trunc(bbox_height * SLIDE_HEIGHT_PT, image_height), 144))

\* FontMapper.map_font computes the size of one fragment of the image
EstimateFontSize ==
    /\ ePc = "ready"
    /\ Len(eCalls) < MaxCalls
    /\ \E bbox_height \in (-2)..MaxBboxH :
          eCalls' = Append(eCalls,
                           [bbox_height |-> bbox_height,
                            font_size |-> estimate_font_size_pt(bbox_height, eImageH)])
    /\ UNCHANGED <<ePc, eImageH>>

(***************************************************************************)
(* SpecFont: font sizes of fragments of one image                          *)
(***************************************************************************)
ImageHeights == {-1, 0, 27, 100}

InitFont ==
    /\ ePc = "ready"
    /\ eImageH \in ImageHeights
    /\ eCalls = <<>>
    /\ PipelineIdle
    /\ FilterIdle
    /\ TaskIdle
    /\ OcrIdle
    /\ CorrectorIdle
    /\ CleanIdle
    /\ YIdle

NextFont == EstimateFontSize /\ UNCHANGED <<fvars, pvars, tvars, ovars, cvars, rvars, yvars>>

SpecFont == InitFont /\ [][NextFont]_vars

(***************************************************************************)
(* BaiduOCRClient._prepare_image: resize and JPEG quality loop             *)
(***************************************************************************)
\* 4 * 1024 * 1024
MAX_BASE64_SIZE == 4194304

\* the qualities img.save is called with: 85 first, then steps of 10
Qualities == {85, 75, 65, 55, 45, 35, 25}

\* int(side * scale_factor): scale_factor is the float MAX_DIMENSION /
\* max_side, so a product that is a whole number in exact arithmetic may come
\* out just below it and lose one pixel.
resized(side, scale) ==
    LET exact == (side * scale.num) \div scale.den
    IN  IF (side * scale.num) % scale.den = 0 /\ scale.den # 1 /\ exact > 1
        THEN {exact - 1, exact}
        ELSE {exact}

\* len(base64.b64encode(b)) for len(b) = n
b64encode_len(n) == 4 * ((n + 2) \div 3)

\* Image.open, the resize, and the first img.save at quality 85
PrepareOpen ==
    /\ qPc = "ready"
    /\ LET scale == prepare_image(qImage)
       IN  \E w \in resized(qImage.width, scale), h \in resized(qImage.height, scale) :
              qSize' = [width |-> w, height |-> h]
    /\ qQuality' = 85
    /\ qBytes' = qImage.jpeg[85]
    /\ qPc' = "loop"
    /\ UNCHANGED <<qImage, qOut>>

\* one turn of "while len(image_bytes) > MAX_BASE64_SIZE and quality > 30"
PrepareCompress ==
    /\ qPc = "loop"
    /\ qBytes > MAX_BASE64_SIZE /\ qQuality > 30
    /\ qQuality' = qQuality - 10
    /\ qBytes' = qImage.jpeg[qQuality - 10]
    /\ UNCHANGED <<qPc, qImage, qSize, qOut>>

\* the loop condition fails: return base64.b64encode(image_bytes), scale_factor
PrepareReturn ==
    /\ qPc = "loop"
    /\ ~(qBytes > MAX_BASE64_SIZE /\ qQuality > 30)
    /\ qOut' = [base64_len |-> b64encode_len(qBytes), scale |-> prepare_image(qImage)]
    /\ qPc' = "done"
    /\ UNCHANGED <<qImage, qSize, qQuality, qBytes>>

(***************************************************************************)
(* SpecPrepare: _prepare_image on bounded images                           *)
(***************************************************************************)
\* what the JPEG encoder writes for an image, from quality 85 down to 25
JpegSizes(s85, s75, s65, s55, s45, s35, s25) ==
    [q \in Qualities |->
        CASE q = 85 -> s85 [] q = 75 -> s75 [] q = 65 -> s65 [] q = 55 -> s55
          [] q = 45 -> s45 [] q = 35 -> s35 [] OTHER -> s25]

Encodings ==
    {JpegSizes(900000, 800000, 700000, 600000, 500000, 400000, 300000),
     JpegSizes(3145728, 3000000, 2800000, 2600000, 2400000, 2200000, 2000000),
     JpegSizes(3500000, 3200000, 3000000, 2800000, 2600000, 2400000, 2200000),
     JpegSizes(4194304, 4000000, 3800000, 3600000, 3400000, 3200000, 3000000),
     JpegSizes(5000000, 4100000, 3900000, 3700000, 3500000, 3300000, 3100000),
     JpegSizes(6000000, 5500000, 5000000, 4500000, 4200000, 3000000, 2500000),
     JpegSizes(9000000, 8000000, 7000000, 6000000, 5000000, 4500000, 3100000),
     JpegSizes(12000000, 11000000, 10000000, 9000000, 8000000, 7000000, 6000000)}

PrepareImages ==
    {[width |-> d.width, height |-> d.height, jpeg |-> e] :
        d \in ScaleImages \cup {[width |-> 1024, height |-> 768],
                                [width |-> 4096, height |-> 4096]},
        e \in Encodings}

InitPrepare ==
    /\ qPc = "ready"
    /\ qImage \in PrepareImages
    /\ qSize = [width |-> 0, height |-> 0]
    /\ qQuality = 0
    /\ qBytes = 0
    /\ qOut = NoPayload
    /\ PipelineIdle
    /\ FilterIdle
    /\ TaskIdle
    /\ OcrIdle
    /\ CorrectorIdle
    /\ CleanIdle
    /\ FontIdle
    /\ TokenIdle
    /\ EmitIdle
    /\ OrderIdle

NextPrepare ==
    \/ (PrepareOpen /\ UNCHANGED <<fvars, pvars, tvars, xvarsButPrepare>>)
    \/ (PrepareCompress /\ UNCHANGED <<fvars, pvars, tvars, xvarsButPrepare>>)
    \/ (PrepareReturn /\ UNCHANGED <<fvars, pvars, tvars, xvarsButPrepare>>)

SpecPrepare == InitPrepare /\ [][NextPrepare]_vars

(***************************************************************************)
(* BaiduOCRClient.access_token, as threads calling recognize see it        *)
(***************************************************************************)
Threads == {"t1", "t2"}

\* recognize is called: _prepare_image, then the f-string reads the property
RecognizeCall(t) ==
    /\ kPc[t] = "idle"
    /\ kCalls < MaxRecognize
    /\ kCalls' = kCalls + 1
    /\ kPc' = [kPc EXCEPT ![t] = "check"]
    /\ UNCHANGED <<kToken, kLocal, kIssued, kNow, kRequests, kFailed>>

\* The property returns the cache without looking at it.
TokenCheck_never_fetches(t) ==
    /\ kPc[t] = "check"
    /\ kPc' = [kPc EXCEPT ![t] = "read"]
    /\ UNCHANGED <<kToken, kLocal, kIssued, kNow, kRequests, kCalls, kFailed>>

\* "if self._access_token is None"
TokenCheck(t) ==
    /\ kPc[t] = "check"
    /\ kPc' = [kPc EXCEPT ![t] = IF kToken = 0 THEN "fetch" ELSE "read"]
    /\ UNCHANGED <<kToken, kLocal, kIssued, kNow, kRequests, kCalls, kFailed>>

\* _get_access_token returns result["access_token"]: a new token that the
\* service honours until kNow + TokenLifetime
FetchOk(t) ==
    /\ kPc[t] = "fetch"
    /\ kIssued' = Append(kIssued, kNow + TokenLifetime)
    /\ kLocal' = [kLocal EXCEPT ![t] = Len(kIssued) + 1]
    /\ kPc' = [kPc EXCEPT ![t] = "assign"]
    /\ UNCHANGED <<kToken, kNow, kRequests, kCalls, kFailed>>

\* _get_access_token raises (raise_for_status, or no "access_token" in the
\* answer): the exception leaves the property and recognize
FetchRaises(t) ==
    /\ kPc[t] = "fetch"
    /\ kFailed < MaxRecognize
    /\ kFailed' = kFailed + 1
    /\ kPc' = [kPc EXCEPT ![t] = "raised"]
    /\ UNCHANGED <<kToken, kLocal, kIssued, kNow, kRequests, kCalls>>

\* "self._access_token = ..." with the value the fetch returned
TokenAssign(t) ==
    /\ kPc[t] = "assign"
    /\ kToken' = kLocal[t]
    /\ kPc' = [kPc EXCEPT ![t] = "read"]
    /\ UNCHANGED <<kLocal, kIssued, kNow, kRequests, kCalls, kFailed>>

\* "return self._access_token"
TokenRead(t) ==
    /\ kPc[t] = "read"
    /\ kLocal' = [kLocal EXCEPT ![t] = kToken]
    /\ kPc' = [kPc EXCEPT ![t] = "post"]
    /\ UNCHANGED <<kToken, kIssued, kNow, kRequests, kCalls, kFailed>>

\* requests.post(url, ...) with the token in the url; recognize returns
OcrPost(t) ==
    /\ kPc[t] = "post"
    /\ kRequests' = Append(kRequests, [token |-> kLocal[t], at |-> kNow])
    /\ kLocal' = [kLocal EXCEPT ![t] = 0]
    /\ kPc' = [kPc EXCEPT ![t] = "idle"]
    /\ UNCHANGED <<kToken, kIssued, kNow, kCalls, kFailed>>

\* the caller handles the exception and may call again
RecognizeRaised(t) ==
    /\ kPc[t] = "raised"
    /\ kPc' = [kPc EXCEPT ![t] = "idle"]
    /\ UNCHANGED <<kToken, kLocal, kIssued, kNow, kRequests, kCalls, kFailed>>

\* time passes
Tick ==
    /\ kNow < MaxTime
    /\ kNow' = kNow + 1
    /\ UNCHANGED <<kPc, kToken, kLocal, kIssued, kRequests, kCalls, kFailed>>

(***************************************************************************)
(* SpecToken: two threads, one client, a token service                     *)
(***************************************************************************)
InitToken ==
    /\ kPc = [t \in Threads |-> "idle"]
    /\ kToken = 0
    /\ kLocal = [t \in Threads |-> 0]
    /\ kIssued = <<>>
    /\ kNow = 0
    /\ kRequests = <<>>
    /\ kCalls = 0
    /\ kFailed = 0
    /\ PipelineIdle
    /\ FilterIdle
    /\ TaskIdle
    /\ OcrIdle
    /\ CorrectorIdle
    /\ CleanIdle
    /\ FontIdle
    /\ PrepareIdle
    /\ EmitIdle
    /\ OrderIdle

NextToken ==
    \/ \E t \in Threads : RecognizeCall(t) /\ UNCHANGED <<fvars, pvars, tvars, xvarsButToken>>
    \/ \E t \in Threads : TokenCheck(t) /\ UNCHANGED <<fvars, pvars, tvars, xvarsButToken>>
    \/ \E t \in Threads : FetchOk(t) /\ UNCHANGED <<fvars, pvars, tvars, xvarsButToken>>
    \/ \E t \in Threads : FetchRaises(t) /\ UNCHANGED <<fvars, pvars, tvars, xvarsButToken>>
    \/ \E t \in Threads : TokenAssign(t) /\ UNCHANGED <<fvars, pvars, tvars, xvarsButToken>>
    \/ \E t \in Threads : TokenRead(t) /\ UNCHANGED <<fvars, pvars, tvars, xvarsButToken>>
    \/ \E t \in Threads : OcrPost(t) /\ UNCHANGED <<fvars, pvars, tvars, xvarsButToken>>
    \/ \E t \in Threads : RecognizeRaised(t) /\ UNCHANGED <<fvars, pvars, tvars, xvarsButToken>>
    \/ (Tick /\ UNCHANGED <<fvars, pvars, tvars, xvarsButToken>>)

SpecToken == InitToken /\ [][NextToken]_vars

(***************************************************************************)
(* PPTGenerator._add_text_box and the font-fit functions                   *)
(***************************************************************************)
\* Inches(13.333) in EMU
SLIDE_WIDTH == 12191695

PT_TO_EMU == 12700

\* str.isalpha() of the characters used here
Letters == {"a", "b", "A", "I", "X", "Y", "Z"}

\* the advance of one character in hundredths of the font size:
\* CJK 1.0, letters and digits 0.55, others 0.4
advance(char) ==
    IF char \in CJK THEN 100
    ELSE IF char \in Letters THEN 55
    ELSE IF char \in DigitLike THEN 55
    ELSE 40

RECURSIVE sum_advance(_)
sum_advance(text) ==
    IF text = <<>> THEN 0 ELSE advance(Head(text)) + sum_advance(Tail(text))

\* _estimate_text_width, in EMU (a whole number: PT_TO_EMU is a multiple of 100)
estimate_text_width(text, font_size_pt) ==
    (font_size_pt * PT_TO_EMU * sum_advance(text)) \div 100

\* The 5% margin left out.
calculate_optimal_font_size_no_margin(text, bbox_width_emu, original_font_size) ==
    LET estimated_width == estimate_text_width(text, original_font_size)
    IN  IF estimated_width <= bbox_width_emu THEN original_font_size
        ELSE Max(8, Trunc(100 * bbox_width_emu, PT_TO_EMU * sum_advance(text)))

\* _calculate_optimal_font_size.  adjusted_size is int(size * ratio * 0.95)
\* with ratio = bbox_width_emu / estimated_width; estimated_width is size *
\* PT_TO_EMU * sum_advance / 100, so the quotient is written with the size
\* cancelled, which keeps the products within 32 bits.
calculate_optimal_font_size(text, bbox_width_emu, original_font_size) ==
    LET estimated_width == estimate_text_width(text, original_font_size)
    IN  IF estimated_width <= bbox_width_emu THEN original_font_size
        ELSE Max(8, Trunc(95 * bbox_width_emu, PT_TO_EMU * sum_advance(text)))

\* int(v * scale_x) with scale_x the float SLIDE_WIDTH / slide_data.width: a
\* product that is a whole number in exact arithmetic may come out just
\* below it
to_emu(v, image_width) ==
    LET q == SLIDE_WIDTH \div image_width
        r == SLIDE_WIDTH % image_width
        exact == v * q + (v * r) \div image_width
    IN  IF (v * r) % image_width = 0 /\ exact > 0
        THEN {exact - 1, exact} ELSE {exact}

\* The width left as the scaled width of the fragment.
clip_width_never(width, left) == width

\* "max_width = self.prs.slide_width - left; if width > max_width: ..."
clip_width(width, left) ==
    LET max_width == SLIDE_WIDTH - left
    IN  IF width > max_width THEN max_width ELSE width

\* _add_text_box up to slide.shapes.add_textbox and run.font.size
AddTextBox ==
    /\ gPc = "ready"
    /\ \E left \in to_emu(gBlock.x, gSlide.width), width0 \in to_emu(gBlock.w, gSlide.width) :
          LET width == clip_width(width0, left)
          IN  gOut' = [left |-> left, width |-> width,
                       font_size |-> calculate_optimal_font_size(gBlock.text, width,
                                                                 gBlock.font_size)]
    /\ gPc' = "done"
    /\ UNCHANGED <<gSlide, gBlock>>

(***************************************************************************)
(* SpecEmit: _add_text_box on bounded fragments                            *)
(***************************************************************************)
EmitTexts ==
    {<<>>, <<"a">>, <<"zh", "zh", "zh">>, <<"a", "b", " ", "7">>,
     <<"zh", "a", ".", "zh", "7", "zh">>, <<".", ".", ".">>}

FontSizes == {6, 8, 12, 40, 144}

ImageWidths == {1024, 1905}

\* a fragment lies on its image: its left edge is at most the image width
EmitBlocks(image_width) ==
    {[text |-> t, x |-> x, w |-> w, font_size |-> fs] :
        t \in EmitTexts, x \in {0, 500, 1000, image_width},
        w \in {0, 10, 24, 50, 200, image_width}, fs \in FontSizes}

InitEmit ==
    /\ gPc = "ready"
    /\ gSlide \in {[width |-> iw] : iw \in ImageWidths}
    /\ gBlock \in EmitBlocks(gSlide.width)
    /\ gOut = NoTextBox
    /\ PipelineIdle
    /\ FilterIdle
    /\ TaskIdle
    /\ OcrIdle
    /\ CorrectorIdle
    /\ CleanIdle
    /\ FontIdle
    /\ PrepareIdle
    /\ TokenIdle
    /\ OrderIdle

NextEmit == AddTextBox /\ UNCHANGED <<fvars, pvars, tvars, xvarsButEmit>>

SpecEmit == InitEmit /\ [][NextEmit]_vars

(***************************************************************************)
(* OrderService.complete_payment, called by the payment notification       *)
(* (cbb_notify) and by the status poll (get_order_status).  Every request  *)
(* has its own session: it reads the row once and then works on the        *)
(* Order object it loaded; the writes of one commit are one step.          *)
(***************************************************************************)
Requests == {"notify1", "notify2", "poll"}

Notifications == {"notify1", "notify2"}

Return(h, ok, before, after, activated) ==
    [request |-> h, ok |-> ok, db_before |-> before, db_after |-> after,
     activated |-> activated]

\* the customer pays at the provider
CustomerPays ==
    /\ ~dCbbPaid
    /\ dCbbPaid' = TRUE
    /\ UNCHANGED <<dPc, dLocal, dStatus, dHasTxn, dPastExpiry, dActivations,
                   dStatusLog, dReturns>>

\* expires_at passes
ExpiryPasses ==
    /\ ~dPastExpiry
    /\ dPastExpiry' = TRUE
    /\ UNCHANGED <<dPc, dLocal, dStatus, dHasTxn, dCbbPaid, dActivations,
                   dStatusLog, dReturns>>

\* cbb_notify with status SUCCESS: OrderService.get_order_by_no
NotifyLoad(h) ==
    /\ h \in Notifications
    /\ dPc[h] = "idle"
    /\ dCbbPaid
    /\ dLocal' = [dLocal EXCEPT ![h] = dStatus]
    /\ dPc' = [dPc EXCEPT ![h] = "complete"]
    /\ UNCHANGED <<dStatus, dHasTxn, dCbbPaid, dPastExpiry, dActivations,
                   dStatusLog, dReturns>>

\* get_order_status: Order.query.get(order_id)
PollLoad(h) ==
    /\ h \notin Notifications
    /\ dPc[h] = "idle"
    /\ dLocal' = [dLocal EXCEPT ![h] = dStatus]
    /\ dPc' = [dPc EXCEPT ![h] = "loaded"]
    /\ UNCHANGED <<dStatus, dHasTxn, dCbbPaid, dPastExpiry, dActivations,
                   dStatusLog, dReturns>>

\* get_order_status: OrderService.check_order_expired(order)
PollCheckExpired(h) ==
    /\ dPc[h] = "loaded"
    /\ IF dLocal[h] = "pending" /\ dPastExpiry
       THEN /\ dStatus' = "expired"
            /\ dStatusLog' = Append(dStatusLog, "expired")
            /\ dLocal' = [dLocal EXCEPT ![h] = "expired"]
       ELSE UNCHANGED <<dStatus, dStatusLog, dLocal>>
    /\ dPc' = [dPc EXCEPT ![h] = "checked"]
    /\ UNCHANGED <<dHasTxn, dCbbPaid, dPastExpiry, dActivations, dReturns>>

\* get_order_status: the order is pending, has a transaction_id, and
\* query_cbb_order answers payStatus PAYED
PollQueryPaid(h) ==
    /\ dPc[h] = "checked"
    /\ dLocal[h] = "pending" /\ dHasTxn
    /\ dCbbPaid
    /\ dPc' = [dPc EXCEPT ![h] = "complete"]
    /\ UNCHANGED <<dLocal, dStatus, dHasTxn, dCbbPaid, dPastExpiry, dActivations,
                   dStatusLog, dReturns>>

\* get_order_status answers without calling complete_payment: the order is
\* not pending, has no transaction_id, or the query gave no PAYED
PollRespond(h) ==
    /\ dPc[h] = "checked"
    /\ dPc' = [dPc EXCEPT ![h] = "done"]
    /\ UNCHANGED <<dLocal, dStatus, dHasTxn, dCbbPaid, dPastExpiry, dActivations,
                   dStatusLog, dReturns>>

\* complete_payment: "if order.status == 'paid': return True, None"
CompleteAlreadyPaid(h) ==
    /\ dPc[h] = "complete"
    /\ dLocal[h] = "paid"
    /\ dReturns' = Append(dReturns, Return(h, TRUE, dStatus, dStatus, FALSE))
    /\ dPc' = [dPc EXCEPT ![h] = "done"]
    /\ UNCHANGED <<dLocal, dStatus, dHasTxn, dCbbPaid, dPastExpiry, dActivations,
                   dStatusLog>>

\* complete_payment: "if order.status != 'pending': return False, ..."
CompleteWrongStatus(h) ==
    /\ dPc[h] = "complete"
    /\ dLocal[h] \notin {"paid", "pending"}
    /\ dReturns' = Append(dReturns, Return(h, FALSE, dStatus, dStatus, FALSE))
    /\ dPc' = [dPc EXCEPT ![h] = "done"]
    /\ UNCHANGED <<dLocal, dStatus, dHasTxn, dCbbPaid, dPastExpiry, dActivations,
                   dStatusLog>>

\* complete_payment on an order it holds as pending: status, payment_time
\* and transaction_id are set, activate_membership succeeds and commits
CompleteOk(h) ==
    /\ dPc[h] = "complete"
    /\ dLocal[h] = "pending"
    /\ dStatus' = "paid"
    /\ dStatusLog' = Append(dStatusLog, "paid")
    /\ dHasTxn' = TRUE
    /\ dActivations' = dActivations + 1
    /\ dLocal' = [dLocal EXCEPT ![h] = "paid"]
    /\ dReturns' = Append(dReturns, Return(h, TRUE, dStatus, "paid", TRUE))
    /\ dPc' = [dPc EXCEPT ![h] = "done"]
    /\ UNCHANGED <<dCbbPaid, dPastExpiry>>

\* complete_payment when activate_membership refuses (or anything raises):
\* db.session.rollback()
CompleteRollsBack(h) ==
    /\ dPc[h] = "complete"
    /\ dLocal[h] = "pending"
    /\ dLocal' = [dLocal EXCEPT ![h] = dStatus]
    /\ dReturns' = Append(dReturns, Return(h, FALSE, dStatus, dStatus, FALSE))
    /\ dPc' = [dPc EXCEPT ![h] = "done"]
    /\ UNCHANGED <<dStatus, dHasTxn, dCbbPaid, dPastExpiry, dActivations, dStatusLog>>

(***************************************************************************)
(* SpecOrder: two notifications and one poll for one pending order         *)
(***************************************************************************)
InitOrder ==
    /\ dPc = [h \in Requests |-> "idle"]
    /\ dLocal = [h \in Requests |-> "none"]
    /\ dStatus = "pending"
    /\ dHasTxn \in BOOLEAN
    /\ dCbbPaid = FALSE
    /\ dPastExpiry = FALSE
    /\ dActivations = 0
    /\ dStatusLog = <<"pending">>
    /\ dReturns = <<>>
    /\ PipelineIdle
    /\ FilterIdle
    /\ TaskIdle
    /\ OcrIdle
    /\ CorrectorIdle
    /\ CleanIdle
    /\ FontIdle
    /\ PrepareIdle
    /\ TokenIdle
    /\ EmitIdle

NextOrder ==
    \/ (CustomerPays /\ UNCHANGED <<fvars, pvars, tvars, xvarsButOrder>>)
    \/ (ExpiryPasses /\ UNCHANGED <<fvars, pvars, tvars, xvarsButOrder>>)
    \/ \E h \in Requests : NotifyLoad(h) /\ UNCHANGED <<fvars, pvars, tvars, xvarsButOrder>>
    \/ \E h \in Requests : PollLoad(h) /\ UNCHANGED <<fvars, pvars, tvars, xvarsButOrder>>
    \/ \E h \in Requests : PollCheckExpired(h) /\ UNCHANGED <<fvars, pvars, tvars, xvarsButOrder>>
    \/ \E h \in Requests : PollQueryPaid(h) /\ UNCHANGED <<fvars, pvars, tvars, xvarsButOrder>>
    \/ \E h \in Requests : PollRespond(h) /\ UNCHANGED <<fvars, pvars, tvars, xvarsButOrder>>
    \/ \E h \in Requests : CompleteAlreadyPaid(h) /\ UNCHANGED <<fvars, pvars, tvars, xvarsButOrder>>
    \/ \E h \in Requests : CompleteWrongStatus(h) /\ UNCHANGED <<fvars, pvars, tvars, xvarsButOrder>>
    \/ \E h \in Requests : CompleteOk(h) /\ UNCHANGED <<fvars, pvars, tvars, xvarsButOrder>>
    \/ \E h \in Requests : CompleteRollsBack(h) /\ UNCHANGED <<fvars, pvars, tvars, xvarsButOrder>>

SpecOrder == InitOrder /\ [][NextOrder]_vars

(***************************************************************************)
(* Properties                                                              *)
(***************************************************************************)
Pages == 1..Len(pageLog)

RECURSIVE SumDetected(_)
SumDetected(n) == IF n = 0 THEN 0 ELSE SumDetected(n - 1) + pageLog[n].detected

CountOps(name) == Cardinality({j \in 1..Len(log) : log[j].op = name})

SaveFailed == \E j \in 1..Len(log) : log[j].op = "save" /\ log[j].stage = "failed"

\* C1: if detection fails for one slide (network, quota, timeout), that slide
\* is still produced, with zero text fragments and its unmodified background,
\* and the deck is not aborted.
C1_DetectionFailureKeepsDeck ==
    \A i \in Pages :
        pageLog[i].ocr = "raise" =>
            /\ exc # "ocr"
            /\ (idx = i => /\ pc = "page_end"
                           /\ slide_data.present
                           /\ slide_data.text_blocks = <<>>
                           /\ slide_data.bg = "original")

\* C2: a deck of n readable images, no reasoning stage configured, no stage
\* failing (none raises, every cleaned background is written): the result is
\* success with slides_count = n and text_blocks_count = the sum of the
\* fragments the detector returned; the Emitter received one add_slide per
\* image, each slide with one background shape and one text box per fragment.
NominalDeck ==
    /\ ~cfg.llm
    /\ Len(pageLog) = Len(image_paths)
    /\ \A i \in Pages : pageLog[i].image = "ok" /\ pageLog[i].ocr = "ok"
                        /\ pageLog[i].bg_written

IsEvent(e) == e.op = "event"

Events == SelectSeq(log, IsEvent)

EventIdx == {j \in 1..Len(log) : log[j].op = "event"}

Follows(e, f) ==
    LET n == Len(image_paths)
    IN  \/ e.stage = "ocr" /\ f.stage \in {"llm_filter", "page_done"}
           /\ f.current_page = e.current_page
        \/ e.stage = "llm_filter" /\ f.stage = "page_done"
           /\ f.current_page = e.current_page
        \/ e.stage = "page_done" /\ e.current_page < n /\ f.stage = "ocr"
           /\ f.current_page = e.current_page + 1
        \/ e.stage = "page_done" /\ e.current_page = n /\ f.stage = "generating"

First(e) ==
    IF Len(image_paths) = 0 THEN e.stage = "generating"
    ELSE e.stage = "ocr" /\ e.current_page = 1

C3_OrderedOneAtATime ==
    pc # "idle" =>
        LET evs == Events
            last == IF log = <<>> THEN EmitterCall("none", 0, "") ELSE log[Len(log)]
        IN
        \* the events follow one another in page order
        /\ \A j \in 1..Len(evs) :
              IF j = 1 THEN First(evs[j]) ELSE Follows(evs[j - 1], evs[j])
        \* save is called at most once, and nothing comes after it
        /\ \A j \in 1..Len(log) : log[j].op = "save" => j = Len(log)
        /\ last.op = "save" =>
              (cfg.callback => Len(log) > 1 /\ log[Len(log) - 1].op = "event"
                               /\ log[Len(log) - 1].stage = "generating")
        \* a run that returns has gone through every page and has saved
        /\ pc = "returned" =>
              /\ last.op = "save"
              /\ cfg.callback =>
                    /\ evs # <<>> /\ evs[Len(evs)].stage = "generating"
                    /\ \A i \in 1..Len(image_paths) :
                          \E j \in 1..Len(evs) :
                             evs[j].stage = "page_done" /\ evs[j].current_page = i

C3_Witness ==
    /\ pc = "returned" /\ cfg.callback
    /\ Len(image_paths) = 3
    /\ CountOps("add_slide") = 2
    /\ \E j \in EventIdx : log[j].stage = "llm_filter" /\ log[j].current_page = 2

\* C4: the background task on an existing Task row: the status moves only
\* PENDING -> PROCESSING -> (COMPLETED | FAILED) and is never PROCESSING once
\* the function has returned; it is COMPLETED, with the output path in the
\* progress data, exactly when the converter returned success, and otherwise
\* FAILED with error_message set.
C4_TaskStatus ==
    /\ Len(statusLog) <= 3
    /\ \A j \in 1..Len(statusLog) :
          statusLog[j] \in (CASE j = 1 -> {"PENDING"}
                              [] j = 2 -> {"PROCESSING"}
                              [] OTHER -> {"COMPLETED", "FAILED"})
    /\ (task.found => statusLog # <<>> /\ task.status = statusLog[Len(statusLog)])
    /\ (tpc = "returned" /\ task.found) =>
          /\ task.status \in {"COMPLETED", "FAILED"}
          /\ (task.status = "COMPLETED") <=> (presult.present /\ presult.success)
          /\ (task.status = "COMPLETED" => task.progress = "summary")
          /\ (task.status = "FAILED" => task.has_error_message)

C4_Witness ==
    /\ tpc = "returned" /\ task.found
    /\ task.status = "COMPLETED" /\ task.progress = "summary"
    /\ statusLog = <<"PENDING", "PROCESSING", "COMPLETED">>

\* C5: if Emitter.save() fails, convert_images yields a ConversionResult
\* with success = false and an error message, and no output path.
C5_SaveFailureIsAValue ==
    SaveFailed =>
        /\ pc = "returned"
        /\ result.present /\ ~result.success
        /\ result.has_error_message /\ ~result.has_output_path

\* C6: with OCR credentials missing the conversion is rejected at deck start:
\* no slide image is loaded, no per-page progress event is emitted and no
\* detection call is attempted.
C6_MissingCredentialsRejectedAtStart ==
    /\ (pc # "idle" /\ ~cfg.creds) =>
          /\ loaded = 0
          /\ ocrCalls = 0
          /\ EventIdx = {}
    /\ (tpc \in {"finish", "returned"} /\ pdf.exists /\ pdf.detect = "image" /\ ~pdf.creds) =>
          /\ log = <<>>
          /\ presult.present /\ ~presult.success

\* C7: a slide whose source image is missing or corrupt is skipped (no
\* SlideData, no add_slide), the remaining images are still processed, and
\* slides_count is reduced by exactly the number of skipped images.
Unreadable == {i \in 1..Len(image_paths) : image_paths[i] # "ok"}

C7_UnreadableImageSkipped ==
    /\ \A i \in Pages :
          pageLog[i].image \in {"missing", "corrupt"} =>
              /\ exc # "image"
              /\ (idx = i => pc = "page_end" /\ ~slide_data.present)
              /\ \A j \in 1..Len(log) : ~(log[j].op = "add_slide" /\ log[j].current_page = i)
    /\ pc = "returned" =>
          result.slides_count = Len(image_paths) - Cardinality(Unreadable)

\* C8: every result value returned to the caller (ConversionResult,
\* PDFConversionResult) has its output path present iff success is true and
\* its error message present iff success is false.
C8_ResultShape ==
    /\ result.present =>
          /\ result.has_output_path <=> result.success
          /\ result.has_error_message <=> ~result.success
    /\ presult.present =>
          /\ presult.has_output_path <=> presult.success
          /\ presult.has_error_message <=> ~presult.success

C8_Witness ==
    /\ presult.present /\ ~presult.success /\ presult.has_error_message
    /\ pdf.detect = "image" /\ pdf.creds
    /\ tpc = "finish"

\* C9: when the reasoning capability raises during the call, the Noise
\* Filter returns all the fragments it was given, unchanged and in input
\* order, with filtered_count = 0, and the slide is produced as usual.
C9_FilterFailsOpenOnException ==
    \A i \in Pages :
        pageLog[i].llm = "raise" =>
            /\ pageLog[i].kept = DetectorOutput(pageLog[i].detected)
            /\ pageLog[i].filtered_count = 0
            /\ IF idx = i
               THEN /\ pc = "page_end"
                    /\ slide_data.present
                    /\ slide_data.text_blocks = DetectorOutput(pageLog[i].detected)
               ELSE \E j \in 1..Len(generator) :
                       /\ generator[j].index = i
                       /\ generator[j].n_text_boxes = pageLog[i].detected

C9_Witness ==
    /\ pc = "page_end"
    /\ Len(pageLog) = idx
    /\ pageLog[idx].llm = "raise"
    /\ pageLog[idx].detected = 2
    /\ Len(slide_data.text_blocks) = 2

\* C10: every reply of the reasoning capability that is neither the literal
\* 'all', nor the literal 'none', nor a comma-separated list holding at least
\* one fragment index (an empty reply, a list whose entries are all
\* non-numeric or out of range) keeps all fragments of the slide.
Normalised(content) == strip(lower(strip(content)))

IsIndex(part, n) ==
    LET t == strip(part)
    IN  t # <<>> /\ (\A k \in 1..Len(t) : t[k] \in AsciiDigits) /\ int(t) < n

Unparseable(content, n) ==
    LET r == Normalised(content)
        parts == split(r, <<>>)
    IN  /\ r # LitAll
        /\ r # LitNone
        /\ \A k \in 1..Len(parts) : ~IsIndex(parts[k], n)

FragmentsValid == fIn # <<>> /\ \A k \in 1..Len(fIn) : NonBlank(fIn[k])

C10_UnparseableReplyKeepsAll ==
    (fPc = "done" /\ FragmentsValid /\ fLlm.kind = "reply"
        /\ Unparseable(fLlm.content, Len(fIn))) =>
            /\ fOut.blocks = fIn
            /\ fOut.filtered_count = 0

\* C11: when the reply is a comma-separated list of numbers naming at least
\* one fragment position, the filter keeps exactly the fragments at the
\* listed positions, in input order, and filtered_count is the number of
\* input fragments minus the number kept.
IsNumber(part) ==
    LET t == strip(part)
    IN  t # <<>> /\ \A k \in 1..Len(t) : t[k] \in AsciiDigits

ParseableIndexList(content, n) ==
    LET r == Normalised(content)
        parts == split(r, <<>>)
    IN  /\ r \notin {LitAll, LitNone}
        /\ \A k \in 1..Len(parts) : IsNumber(parts[k])
        /\ \E k \in 1..Len(parts) : IsIndex(parts[k], n)

ListedPositions(content, n) ==
    LET parts == split(Normalised(content), <<>>)
    IN  {int(strip(parts[k])) : k \in 1..Len(parts)} \cap range(n)

AtPositions(blocks, S) ==
    LET Listed(b) == (b.id - 1) \in S
    IN  SelectSeq(blocks, Listed)

C11_IndexListKeepsListed ==
    (fPc = "done" /\ FragmentsValid /\ fLlm.kind = "reply"
        /\ ParseableIndexList(fLlm.content, Len(fIn))) =>
            /\ fOut.blocks = AtPositions(fIn, ListedPositions(fLlm.content, Len(fIn)))
            /\ fOut.filtered_count = Len(fIn) - Len(fOut.blocks)

\* three fragments and the reply "1": only the second is kept, two are filtered
C11_Witness ==
    /\ fPc = "done"
    /\ Len(fIn) = 3 /\ FragmentsValid
    /\ fIn[1].text = <<"7">> /\ fIn[2].text = <<"a", "b">>
    /\ fLlm.kind = "reply" /\ fLlm.content = <<"1">>
    /\ fOut.blocks = <<fIn[2]>>
    /\ fOut.filtered_count = 2

\* C12: every fragment recognize returns has confidence >= the threshold,
\* and none is a single character outside the CJK ideographs, whatever its
\* confidence.
SingleNonCJK(text) == Len(strip(text)) = 1 /\ strip(text)[1] \notin CJK

C12_ConfidenceAndSingleChars ==
    oPc = "done" =>
        \A k \in 1..Len(oOut) :
            /\ oOut[k].confidence >= oThreshold
            /\ ~SingleNonCJK(oOut[k].text)

\* a confident single letter and a weak two-character text were offered and
\* dropped, a three-character text was returned
C12_Witness ==
    /\ oPc = "done"
    /\ oThreshold = 60
    /\ Len(oResp.words_result) = 2
    /\ oResp.words_result[1].words = <<"a">>
    /\ oResp.words_result[1].probability = [present |-> TRUE, average |-> 70]
    /\ oResp.words_result[2].words = <<"a", "7", "zh">>
    /\ Len(oOut) = 1
    /\ oOut[1].text = <<"a", "7", "zh">>

\* C13: no fragment recognize returns is made only of punctuation or
\* symbols: its text holds at least one alphanumeric or CJK character and
\* is non-empty after trimming.
Alphanumeric == {"a", "7"}

HasContent(text) == \E i \in 1..Len(text) : text[i] \in Alphanumeric \cup CJK

C13_NoSymbolOnlyFragments ==
    oPc = "done" =>
        \A k \in 1..Len(oOut) :
            /\ strip(oOut[k].text) # <<>>
            /\ HasContent(oOut[k].text)

\* C14: after correct_text_block the fragment's text is its original text
\* or a member of the candidate set computed from the reference text (a
\* cleaned line of some page or a deck-wide cleaned segment).
Range(f) == {f[k] : k \in DOMAIN f}

Candidates ==
    UNION {Range(pages_text[p]) : p \in DOMAIN pages_text} \cup Range(all_segments)

C14_CorrectorNeverInvents ==
    cPc = "done" => (cOut.text = cBlock.text \/ cOut.text \in Candidates)

\* a fragment was rewritten to the cleaned form of a marked-up line
C14_Witness ==
    /\ cPc = "done"
    /\ cBlock.text = <<" ", "I", "shi", "dai">>
    /\ <<"*", "*", "A", "I", "*", "*", "shi", "dai">> \in Range(cRef)
    /\ cOut.text = <<"A", "I", "shi", "dai">>

\* C15 as stated: a fragment that is a reference line of its own page with
\* one character dropped is corrected to that reference line.
OneDropped(f, l) ==
    /\ Len(l) = Len(f) + 1
    /\ \E k \in 1..Len(l) : f = SubSeq(l, 1, k - 1) \o SubSeq(l, k + 1, Len(l))

OwnPageLines ==
    IF cPage # 0 /\ cPage \in DOMAIN pages_text THEN pages_text[cPage] ELSE <<>>

ImagePdfRan ==
    \E j \in 1..Len(log) : log[j].op = "event" /\ log[j].stage = "ocr"

C16_ReferenceStageOptional ==
    (/\ tpc \in {"finish", "returned"}
     /\ pdf.task_found /\ pdf.exists /\ pdf.detect = "image" /\ pdf.creds
     /\ ~pdf.reference) => ImagePdfRan

\* C17: within one slide the stages run in the order Detector, Noise
\* Filter, Reference Corrector, Style Mapper, Background Cleaner, and the
\* Style Mapper is applied only to fragments that survived the Noise Filter.
StageRank(stage) ==
    CASE stage = "detector" -> 1
      [] stage = "noise_filter" -> 2
      [] stage = "reference_corrector" -> 3
      [] stage = "style_mapper" -> 4
      [] stage = "background_cleaner" -> 5

C17_StageOrder ==
    \A n \in Pages :
        pageLog[n].ocr = "ok" =>
            /\ \A i, j \in 1..Len(pageLog[n].stages) :
                  i < j => StageRank(pageLog[n].stages[i]) < StageRank(pageLog[n].stages[j])
            /\ pageLog[n].styled \subseteq {pageLog[n].kept[k].id : k \in 1..Len(pageLog[n].kept)}

\* C18: remove_text_regions returns a bitmap in which every pixel outside
\* all padded boxes equals the input pixel, the input bitmap is not
\* modified, and with an empty box list the result is pixel-identical to
\* the input.
InsidePadded(p, bbox) ==
    LET pad == Max(3, Min(15, (bbox.bh * 15) \div 100))
    IN  /\ bbox.x - pad <= p[1] /\ p[1] < bbox.x + bbox.bw + pad
        /\ bbox.y - pad <= p[2] /\ p[2] < bbox.y + bbox.bh + pad

OutsideAll(p) == \A k \in 1..Len(rBoxes) : ~InsidePadded(p, rBoxes[k].bbox)

C18_CleanFrame ==
    rPc = "done" =>
        /\ \A p \in Pixels : OutsideAll(p) => rOut[p] = OriginalImage[p]
        /\ rImage = OriginalImage
        /\ rBoxes = <<>> => rOut = OriginalImage

\* two boxes were erased, one by filling and one by inpainting, and pixels
\* outside them remain
C18_Witness ==
    /\ rPc = "done"
    /\ Len(rBoxes) = 2
    /\ \E p \in Pixels : rOut[p] = Fill
    /\ \E p \in Pixels : rOut[p] = Inpainted
    /\ \E p \in Pixels : OutsideAll(p) /\ rOut[p] = p

\* C19: estimate_font_size_pt returns an integer in 8..144, and for one
\* image height the result never decreases when the bbox height grows; in
\* particular doubling the bbox height never decreases the font size.
C19_FontSizeRangeAndMonotone ==
    \A i, j \in 1..Len(eCalls) :
        /\ eCalls[i].font_size \in 8..144
        /\ eCalls[i].bbox_height <= eCalls[j].bbox_height
              => eCalls[i].font_size <= eCalls[j].font_size
        /\ eCalls[j].bbox_height = 2 * eCalls[i].bbox_height
              => eCalls[i].font_size <= eCalls[j].font_size

\* on an image 100 pixels high a box of 2 pixels gets 10 pt and its double 21 pt
C19_Witness ==
    /\ eImageH = 100
    /\ Len(eCalls) = 2
    /\ eCalls[1] = [bbox_height |-> 2, font_size |-> 10]
    /\ eCalls[2] = [bbox_height |-> 4, font_size |-> 21]

\* C20 as stated: for an image downscaled to fit the OCR limits, a bbox
\* mapped into the scaled space as the service reports it and restored by
\* dividing by the scale factor has every coordinate within 1 px of the
\* bbox on the unscaled image.
MaxSide == Max(oImage.width, oImage.height)

Downscaled == MaxSide > MAX_DIMENSION

Dist(a, b) == IF a >= b THEN a - b ELSE b - a

BoxWithin(box, truth, d) ==
    /\ Dist(box.left, truth.left) <= d
    /\ Dist(box.top, truth.top) <= d
    /\ Dist(box.width, truth.width) <= d
    /\ Dist(box.height, truth.height) <= d

C20_RoundTripWithinOnePixel ==
    (oPc = "done" /\ Downscaled /\ Len(oOut) = 1) => BoxWithin(oOut[1].bbox, oTruth, 1)

\* C20 amended: every restored coordinate is within ceil(1/s) px of the
\* bbox on the unscaled image, s being the scale factor 4096 / max_side.
C20_RoundTripWithinInverseScale ==
    (oPc = "done" /\ Downscaled /\ Len(oOut) = 1) =>
        BoxWithin(oOut[1].bbox, oTruth, (MaxSide + MAX_DIMENSION - 1) \div MAX_DIMENSION)

\* on an image 6000 pixels wide a left edge at 4 comes back as 2
C20_Witness ==
    /\ oPc = "done"
    /\ oImage = [width |-> 6000, height |-> 4000]
    /\ oTruth.left = 4
    /\ Len(oOut) = 1
    /\ oOut[1].bbox.left = 2

(***************************************************************************)
(* C21: the payload _prepare_image returns has neither dimension above     *)
(* 4096 px and a base64 length not above the 4 MB cap; the quality loop    *)
(* never ends with a payload still over the cap.                           *)
(***************************************************************************)
C21_PayloadWithinLimits ==
    qPc = "done" =>
        /\ qSize.width <= MAX_DIMENSION
        /\ qSize.height <= MAX_DIMENSION
        /\ qOut.base64_len <= MAX_BASE64_SIZE

(***************************************************************************)
(* C22: no OCR request is issued with a token past its expiry: once the    *)
(* cached token's lifetime has elapsed the next recognize call fetches a   *)
(* fresh one.                                                              *)
(***************************************************************************)
Expired(r) == r.token \in 1..Len(kIssued) /\ r.at >= kIssued[r.token]

\* C22: every OCR request sent carries a token that has not expired
C22_NoExpiredTokenSent ==
    \A i \in 1..Len(kRequests) : ~Expired(kRequests[i])

(***************************************************************************)
(* C23: under any interleaving of recognize calls on one client, every     *)
(* OCR request carries a token that a completed fetch returned (never the  *)
(* unset value), the cache holds nothing else, threads that both find the  *)
(* cache empty each fetch, and a fetch that fails leaves the cache as it   *)
(* was, so that a caller finding it unset fetches again.                   *)
(***************************************************************************)
FromCompletedFetch(tok) == tok \in 1..Len(kIssued)

C23_CacheSound ==
    /\ kToken = 0 \/ FromCompletedFetch(kToken)
    /\ \A i \in 1..Len(kRequests) : FromCompletedFetch(kRequests[i].token)
    /\ \A t \in Threads : kPc[t] = "post" => FromCompletedFetch(kLocal[t])

C23_FailedFetchKeepsCache ==
    \A t \in Threads :
        /\ (kPc[t] = "fetch" /\ kPc'[t] = "raised") => kToken' = kToken
        /\ (kPc[t] = "check" /\ kToken = 0) => (kPc'[t] = "fetch" \/ kPc'[t] = "check")

\* C23: the cache and every request hold tokens of completed fetches, in
\* every state, and no failed fetch writes the cache, in every step
C23_TokenAcquisitionReentrant ==
    [](C23_CacheSound) /\ [][C23_FailedFetchKeepsCache]_vars

\* both threads found the cache empty and fetched, a fetch failed, a later
\* call fetched again, and requests of both fetches went out
C23_Witness ==
    /\ Len(kIssued) >= 2
    /\ kFailed >= 1
    /\ \E i, j \in 1..Len(kRequests) : kRequests[i].token # kRequests[j].token

(***************************************************************************)
(* C24: every progress event delivered to the callback carries the current *)
(* page index, the total page count and a stage tag, and the tag is one of *)
(* extracting, ocr, llm_filter, page_done, generating.                     *)
(***************************************************************************)
StageTags == {"extracting", "ocr", "llm_filter", "page_done", "generating"}

\* C24: each delivered event has current_page, total and a listed stage
C24_ProgressEventShape ==
    \A i \in 1..Len(log) :
        IsEvent(log[i]) =>
            /\ {"current_page", "total"} \subseteq log[i].keys
            /\ log[i].stage \in StageTags

(***************************************************************************)
(* C25: a fragment's text is replaced only by the highest-scoring          *)
(* candidate, and only when that score is at or above the acceptance       *)
(* threshold; when the best score is below the threshold the text is left  *)
(* unchanged; deck-wide segments are consulted only when the best in-page  *)
(* score is below the threshold.                                           *)
(***************************************************************************)
\* the score _find_best_match gives one candidate for the trimmed fragment
CandidateScore(ocr_text, ref_text) ==
    LET pscore == Frac(10 * Len(ocr_text) + 3 * Len(ref_text), 10 * Len(ref_text))
        capped == IF Less(pscore, Frac(95, 100)) THEN pscore ELSE Frac(95, 100)
        sscore == similarity(ocr_text, ref_text)
    IN  IF Contains(ocr_text, ref_text) THEN Frac(1, 1)
        ELSE IF is_partial_match(ocr_text, ref_text) /\ Less(sscore, capped) THEN capped
        ELSE sscore

AtLeast(x, y) == ~Less(x, y)

InPageBelow(ocr_text) ==
    \A l \in Range(OwnPageLines) :
        Less(CandidateScore(ocr_text, l), Frac(cThreshold, 100))

\* the candidates the call looks at
Consulted(ocr_text) ==
    Range(OwnPageLines) \cup
        (IF InPageBelow(ocr_text) THEN Range(all_segments) ELSE {})

\* C25: a replacement is a consulted candidate whose score reaches the
\* threshold and that no consulted candidate beats; without such a
\* candidate the fragment is unchanged
C25_BestCandidateAtThreshold ==
    cPc = "done" =>
        LET ocr_text == strip(cBlock.text)
        IN  /\ cOut.text # cBlock.text =>
                /\ cOut.text \in Consulted(ocr_text)
                /\ AtLeast(CandidateScore(ocr_text, cOut.text), Frac(cThreshold, 100))
                /\ \A c \in Consulted(ocr_text) :
                      AtLeast(CandidateScore(ocr_text, cOut.text),
                              CandidateScore(ocr_text, c))
            /\ (\A c \in Consulted(ocr_text) :
                    Less(CandidateScore(ocr_text, c), Frac(cThreshold, 100)))
                  => cOut.text = cBlock.text

(***************************************************************************)
(* C26: _calculate_optimal_font_size returns the assigned size when the    *)
(* estimated width fits the box and otherwise max(8, floor(size *          *)
(* (box_width / estimated_width) * 0.95)); the estimated width at the      *)
(* returned size does not exceed the box width unless the returned size is *)
(* the 8 pt floor, and the returned size never exceeds an assigned size    *)
(* that is >= 8.                                                           *)
(***************************************************************************)
\* the width of a text at 1 pt in hundredths of an EMU, from the advances
\* of the claim
UnitWidth100(text) ==
    LET n(S) == Cardinality({i \in 1..Len(text) : text[i] \in S})
        cjk == n(CJK)
        latin == n(Letters \cup DigitLike)
        other == Len(text) - cjk - latin
    IN  PT_TO_EMU * (100 * cjk + 55 * latin + 40 * other)

\* floor(size * (box / est) * 0.95) with est = size * unit: the largest k
\* with k * unit <= 0.95 * box
ShrunkSize(size, box, unit100) ==
    CHOOSE k \in 0..size :
        /\ k * unit100 <= 95 * box
        /\ (k + 1) * unit100 > 95 * box

\* C26: the font size of the placed text box, as the claim computes it
C26_FontFit ==
    gPc = "done" =>
        LET size == gBlock.font_size
            unit100 == UnitWidth100(gBlock.text)
            fits(s) == s * unit100 <= 100 * gOut.width
        IN  /\ fits(size) => gOut.font_size = size
            /\ ~fits(size) =>
                  gOut.font_size = Max(8, ShrunkSize(size, gOut.width, unit100))
            /\ gOut.font_size # 8 => fits(gOut.font_size)
            /\ size >= 8 => gOut.font_size <= size

\* a text that does not fit at 40 pt is shrunk to a size between 8 and 40
C26_Witness ==
    /\ gPc = "done"
    /\ gBlock.font_size = 40
    /\ gOut.font_size > 8 /\ gOut.font_size < 40
    /\ 40 * UnitWidth100(gBlock.text) > 100 * gOut.width

(***************************************************************************)
(* C27: the text box placed for a fragment has a non-negative width and    *)
(* left + width <= canvas width.                                           *)
(***************************************************************************)
\* C27: no text box extends past the right edge of the canvas
C27_TextBoxInsideCanvas ==
    gPc = "done" =>
        /\ gOut.width >= 0
        /\ gOut.left + gOut.width <= SLIDE_WIDTH

\* a fragment whose scaled width would cross the right edge was clipped
C27_Witness ==
    /\ gPc = "done"
    /\ gBlock.x = 1000 /\ gBlock.w = 200 /\ gSlide.width = 1024
    /\ gOut.left + gOut.width = SLIDE_WIDTH
    /\ gOut.width > 0

(***************************************************************************)
(* C28: the index k shown to the reasoning capability as "[k] text"        *)
(* denotes the fragment that is kept when k is in the returned keep set,   *)
(* also when the list holds fragments with blank text; and the number kept *)
(* plus filtered_count is the number of non-blank input fragments.         *)
(***************************************************************************)
\* the index under which fragment i of the input (1-based) was shown:
\* its position in ocr_texts, which leaves the blank fragments out
ShownIndex(blocks, i) == Cardinality({j \in 1..(i - 1) : NonBlank(blocks[j])})

RECURSIVE KeptByShownIndex(_, _, _)
KeptByShownIndex(blocks, keep, i) ==
    IF i > Len(blocks) THEN <<>>
    ELSE (IF NonBlank(blocks[i]) /\ ShownIndex(blocks, i) \in keep
          THEN <<blocks[i]>> ELSE <<>>)
         \o KeptByShownIndex(blocks, keep, i + 1)

\* C28: the fragments kept are those whose shown index is in the keep set
C28_ShownIndexIsKeptIndex ==
    (fPc = "done" /\ fOut.called) =>
        /\ fOut.blocks = KeptByShownIndex(fIn, fOut.keep_indices, 1)
        /\ Len(fOut.blocks) + fOut.filtered_count
              = Cardinality({i \in 1..Len(fIn) : NonBlank(fIn[i])})

(***************************************************************************)
(* C29: in a convert_images run that returns, exactly one page_done event  *)
(* is emitted per input image, skipped images included; its                *)
(* text_blocks_count is the number of fragments of that slide (0 for a     *)
(* skipped image); the counts add up to ConversionResult.text_blocks_count *)
(* and the page_done events of produced slides number slides_count.        *)
(***************************************************************************)
PageDoneAt(p) ==
    {i \in 1..Len(log) :
        IsEvent(log[i]) /\ log[i].stage = "page_done" /\ log[i].current_page = p}

PageDoneEvents ==
    {i \in 1..Len(log) : IsEvent(log[i]) /\ log[i].stage = "page_done"}

RECURSIVE SumCounts(_)
SumCounts(S) ==
    IF S = {} THEN 0
    ELSE LET i == CHOOSE j \in S : TRUE
         IN  log[i].text_blocks_count + SumCounts(S \ {i})

\* the slide of page p was produced: the image was there and was processed
Produced(p) == pageLog[p].image = "ok" /\ pageLog[p].ocr = "ok"

\* C29: one page_done per image, with the slide's fragment count, adding up
\* to the result's counts
C29_PageDoneAccounts ==
    (pc = "returned" /\ cfg.callback) =>
        /\ \A p \in 1..Len(image_paths) :
              /\ Cardinality(PageDoneAt(p)) = 1
              /\ \A i \in PageDoneAt(p) :
                    log[i].text_blocks_count =
                        (IF Produced(p) THEN Len(pageLog[p].kept) ELSE 0)
        /\ Cardinality(PageDoneEvents) = Len(image_paths)
        /\ SumCounts(PageDoneEvents) = result.text_blocks_count
        /\ Cardinality({p \in 1..Len(image_paths) : Produced(p)}) = result.slides_count

\* a returned run over a skipped image and a slide with two fragments
C29_Witness ==
    /\ pc = "returned" /\ cfg.callback
    /\ Len(image_paths) >= 2
    /\ \E p \in 1..Len(image_paths) : ~Produced(p)
    /\ \E p \in 1..Len(image_paths) : Produced(p) /\ Len(pageLog[p].kept) = 2
    /\ result.text_blocks_count >= 2

(***************************************************************************)
(* C30: under any interleaving of notifications and polls for one order,   *)
(* the order goes pending -> paid at most once, the membership is          *)
(* activated at most once, a complete_payment call on an order that is     *)
(* already paid returns success and changes nothing, and a paid order      *)
(* never changes status again.                                             *)
(***************************************************************************)
PaidWrites == Cardinality({i \in 1..Len(dStatusLog) : dStatusLog[i] = "paid"})

\* C30: payment completion is idempotent
C30_PaymentCompletionIdempotent ==
    /\ PaidWrites <= 1
    /\ dActivations <= 1
    /\ \A i \in 1..Len(dReturns) :
          dReturns[i].db_before = "paid" =>
              /\ dReturns[i].ok
              /\ dReturns[i].db_after = "paid"
              /\ ~dReturns[i].activated
    /\ \A i \in 1..Len(dStatusLog) : dStatusLog[i] = "paid" => i = Len(dStatusLog)

====
